---- MODULE Spec2Model ----
(***************************************************************************)
(* Market-scanning pipeline of the Smart Acquisition dashboard:            *)
(* MarketScanner (src/utils/market_scanner.py) and its callers in          *)
(* src/modules/smart_markets.py.                                           *)
(*                                                                         *)
(* Conventions.  A score is kept in hundredths (0.6 is 60).  A text that   *)
(* the code searches by substring is a sequence of one-character strings,  *)
(* so that "in" and lower() are computed character by character.  A JSON   *)
(* value of the model response is a record of one fixed shape whose field  *)
(* "t" is its JSON type and whose field "keys" holds the keys an object    *)
(* carries (dict.get falls back to its default for any other key).         *)
(***************************************************************************)
EXTENDS Integers, Sequences, FiniteSets, TLC

VARIABLES
    \* ---- analyze_snippets_with_openai (the insight extractor)
    openai_client,      \* self.openai_client is set (a model credential was found)
    snippet_data,       \* the hits handed to the extractor
    config,             \* the scan configuration (market_categories, intelligence_types)
    xpc,                \* the extractor's position
    content,            \* response.choices[0].message.content
    result,             \* json.loads(content), or {"insights": []}
    insightIdx,         \* i of the loop that is running (processing or fallback)
    analyzed_results,   \* the accumulator, returned at the end
    exc,                \* the exception raised inside the try block, "none" if none
    modelCalls,         \* calls of chat.completions.create issued by this invocation
    clock,              \* int(time.time())
    \* ---- execute_google_search (search retrieval)
    google_service,     \* self.google_service is set
    queries,            \* the queries of this call
    geographic_scope,   \* config.get('geographic_scope', ['UK'])
    spc,                \* the retrieval's position
    qIdx,               \* index of the query of the running iteration (1-based)
    pending,            \* result['items'] not yet looked at, of the running iteration
    all_results,        \* the accumulator, returned at the end
    provided,           \* per query issued so far: what the provider answered
    sleeps,             \* per query issued so far: whether time.sleep(1.0) ran after it
    \* ---- _is_uk_relevant and _extract_date_from_result applied to one raw item
    fItem, fScope, fpc, fVerdict, fDate,
    \* ---- the scan entry points of smart_markets.py and the alert store
    session_state,      \* st.session_state: per alert key, whether it is set and its value
    last_writer,        \* per alert key: the scan flow whose store ran last, "none" if none
    openai_key,         \* OPENAI_API_KEY is configured
    google_key,         \* GOOGLE_API_KEY and GOOGLE_CX_ID are configured
    scans,              \* per scan flow: the locals of the entry point it is running
    started,            \* number of scans started in this session
    wall_clock,         \* int(time.time()): whole seconds since the session began
    \* ---- construct_search_queries (the query builder of execute_market_scan)
    scan_config,              \* the config argument (market_scan_config)
    refinement_keywords,      \* the refinement_keywords argument
    contextual_trigger_data,  \* st.session_state.contextual_trigger_data
    trigger,                  \* the local trigger, once assigned
    base_components,          \* the local base_components
    built_queries,            \* the queries returned
    bpc,                      \* the builder's position
    build_log,                \* per call so far: the trigger it found, what it built
    \* ---- MarketScanner.execute_market_scan and crawl_urls
    scanner,            \* the MarketScanner: which clients setup_apis left in it
    api_keys,           \* the three API keys are present (validate_api_keys)
    direct_urls,        \* the non-blank lines of the direct_urls argument
    num_results,        \* the num_results argument
    market_queries,     \* the local queries
    all_urls,           \* the local all_urls
    unique_urls,        \* the local unique_urls
    crawl_list,         \* the entries crawl_urls has still to visit
    processed_urls,     \* the local processed_urls of crawl_urls
    crawled_content,    \* the local crawled_content
    fetched,            \* the urls get_website_text_content was called on, in order
    mpc,                \* the position of execute_market_scan
    scan_outcome,       \* what execute_market_scan returned or raised
    \* ---- the query builders of smart_markets.py applied to one configuration
    build_config,       \* the config argument
    build_entry,        \* the builder that was applied, "none" before
    build_category,     \* its category or intelligence type argument
    build_result,       \* the queries it returned
    \* ---- the timeline of one category and archive_timeline_entry
    timeline_data,      \* st.session_state["timeline_data_{category}"]
    market_timeline,    \* st.session_state["market_timeline_{category}"]
    archived_timeline,  \* st.session_state["archived_timeline_{category}"]
    displayed,          \* the entries the integrated view displayed at its last run
    archived_entry,     \* the entry of the last archive_timeline_entry call
    tpc,                \* rendered, or an entry has just been archived
    \* ---- crawl_with_depth of web_scraper.py
    starting_urls,      \* the starting_urls argument
    max_depth,          \* the max_depth argument
    urls_to_process,    \* the queue of (url, depth)
    crawl_processed,    \* the local processed_urls
    page_content,       \* crawled_content: per page no key, its text, or an error
    visits,             \* the pages crawled so far, in order: depth, links found, failure
    iterations,         \* turns of the while loop so far
    cpc,                \* in the loop, or returned
    \* ---- st.error / st.warning messages shown so far (extractor, retrieval)
    uiLog

extractVars == <<openai_client, snippet_data, config, xpc, content, result,
                 insightIdx, analyzed_results, exc, modelCalls, clock>>
searchVars == <<google_service, queries, geographic_scope, spc, qIdx, pending,
                all_results, provided, sleeps>>
filterVars == <<fItem, fScope, fpc, fVerdict, fDate>>
scanVars == <<session_state, last_writer, openai_key, google_key, scans, started,
              wall_clock>>
queryVars == <<scan_config, refinement_keywords, contextual_trigger_data, trigger,
               base_components, built_queries, bpc, build_log>>
marketVars == <<scanner, api_keys, direct_urls, num_results, market_queries, all_urls,
                unique_urls, crawl_list, processed_urls, crawled_content, fetched,
                mpc, scan_outcome>>
builderVars == <<build_config, build_entry, build_category, build_result>>
timelineVars == <<timeline_data, market_timeline, archived_timeline, displayed,
                  archived_entry, tpc>>
crawlVars == <<starting_urls, max_depth, urls_to_process, crawl_processed,
               page_content, visits, iterations, cpc>>
vars == <<extractVars, searchVars, filterVars, scanVars, queryVars, marketVars, builderVars, timelineVars, crawlVars, uiLog>>

\* ------------------------------------------------------------------ bounds

MaxHits == 2
MaxInsights == 3
MaxClock == 1
MaxQueries == 2
MaxItems == 2
MaxScans == 2
MaxBuilds == 2
\* the most lines of direct urls a caller gives
MaxUrls == 3
\* the largest num_results a caller asks for
MaxResults == 2
\* the seconds of wall clock a session is followed for
MaxTime == 3
\* the most suppliers a configuration names
MaxSuppliers == 3
\* the most entries a generated timeline holds
MaxEntries == 3
\* the most entries the archive of a category is followed to
MaxArchived == 3
\* the pages of the site that is crawled
MaxPages == 2
\* the most links found on one page
MaxLinks == 1
\* the most starting urls of a crawl
MaxStart == 3
\* the largest max_depth of a crawl
MaxDepth == 1

Min(a, b) == IF a < b THEN a ELSE b

RECURSIVE SeqsUpTo(_, _)
\* every sequence over S of length at most n
SeqsUpTo(S, n) ==
    IF n = 0 THEN {<<>>}
    ELSE LET shorter == SeqsUpTo(S, n - 1)
         IN shorter \cup {Append(s, x) : s \in {t \in shorter : Len(t) = n - 1}, x \in S}

\* ------------------------------------------------------------------ texts

UpperLetters == <<"A","B","C","D","E","F","G","H","I","J","K","L","M",
                  "N","O","P","Q","R","S","T","U","V","W","X","Y","Z">>
LowerLetters == <<"a","b","c","d","e","f","g","h","i","j","k","l","m",
                  "n","o","p","q","r","s","t","u","v","w","x","y","z">>

\* str.lower() of one character
LowerChar(c) ==
    IF \E i \in 1..26 : UpperLetters[i] = c
    THEN LowerLetters[CHOOSE i \in 1..26 : UpperLetters[i] = c]
    ELSE c

\* str.lower()
Lower(s) == [i \in 1..Len(s) |-> LowerChar(s[i])]

\* needle in hay (Python's substring test)
Contains(needle, hay) ==
    \E i \in 1..(Len(hay) - Len(needle) + 1) :
        SubSeq(hay, i, i + Len(needle) - 1) = needle

\* s[:n]
Prefix(s, n) == SubSeq(s, 1, Min(n, Len(s)))

Space == <<" ">>
Ellipsis == <<".",".",".">>

Digits == <<"0","1","2","3","4","5","6","7","8","9">>

RECURSIVE Decimal(_)
\* str(n) of a natural number
Decimal(n) == IF n < 10 THEN <<Digits[n + 1]>>
              ELSE Decimal(n \div 10) \o <<Digits[(n % 10) + 1]>>

\* ------------------------------------------------------------------ raw search items

\* A dict of metadata (one element of a pagemap list): the keys it carries and
\* their values; dict.get(k) is None for any other key.
DateFields == {"article:published_time", "date", "pubdate", "last-modified",
               "datepublished", "datemodified"}
NoDict == [keys |-> {}, val |-> [f \in DateFields |-> ""]]
DictWith(k, v) == [keys |-> {k}, val |-> [f \in DateFields |-> IF f = k THEN v ELSE ""]]
DictGet(d, k) == IF k \in d.keys THEN d.val[k] ELSE ""

\* item['pagemap']: the keys it carries and the list under each
PagemapKeys == {"metatags", "newsarticle", "article", "webpage"}
NoPagemap == [keys |-> {}, lists |-> [k \in PagemapKeys |-> <<>>]]
PagemapWith(k, list) ==
    [keys |-> {k}, lists |-> [j \in PagemapKeys |-> IF j = k THEN list ELSE <<>>]]

\* Raw items of the provider's response (title, link, snippet, displayLink, pagemap)
ItemGovUk ==
    [link |-> <<"a",".","g","o","v",".","u","k">>,
     title |-> <<"U","S","A"," ","p","i","p","e","s">>,
     snippet |-> <<"n","e","w"," ","v","a","l","v","e","s">>,
     displayLink |-> "a.gov.uk",
     pagemap |-> PagemapWith("metatags", <<DictWith("date", "2024-05-01")>>)]
ItemDotUs ==
    [link |-> <<"b",".","u","s">>,
     title |-> <<"P","u","m","p","s">>,
     snippet |-> <<"n","e","w"," ","v","a","l","v","e","s">>,
     displayLink |-> "b.us",
     pagemap |-> NoPagemap]
ItemUsCalifornia ==
    [link |-> <<"c",".","u","s">>,
     title |-> <<"P","u","m","p","s">>,
     snippet |-> <<"i","n"," ","C","a","l","i","f","o","r","n","i","a">>,
     displayLink |-> "c.us",
     pagemap |-> PagemapWith("newsarticle", <<>>)]
ItemEdu ==
    [link |-> <<"e",".","e","d","u">>,
     title |-> <<"P","u","m","p","s">>,
     snippet |-> <<"n","e","w"," ","v","a","l","v","e","s">>,
     displayLink |-> "e.edu",
     pagemap |-> NoPagemap]

\* ------------------------------------------------------------------ _is_uk_relevant

\* Faulty variant: the list lacks .nhs.uk
uk_domains_without_nhs ==
    << <<".","g","o","v",".","u","k">>, <<".","a","c",".","u","k">>,
       <<".","c","o",".","u","k">>, <<".","o","r","g",".","u","k">> >>

uk_domains ==
    << <<".","g","o","v",".","u","k">>, <<".","a","c",".","u","k">>,
       <<".","c","o",".","u","k">>, <<".","o","r","g",".","u","k">>,
       <<".","n","h","s",".","u","k">> >>
uk_keywords ==
    << <<"u","n","i","t","e","d"," ","k","i","n","g","d","o","m">>, <<"u","k">>,
       <<"b","r","i","t","a","i","n">>, <<"e","n","g","l","a","n","d">>,
       <<"w","a","l","e","s">>, <<"s","c","o","t","l","a","n","d">>,
       <<"o","f","w","a","t">>, <<"d","e","f","r","a">> >>
non_uk_indicators ==
    << <<"u","s","a">>, <<"u","n","i","t","e","d"," ","s","t","a","t","e","s">>,
       <<"c","o","l","o","r","a","d","o">>,
       <<"c","a","l","i","f","o","r","n","i","a">>, <<".","e","d","u">> >>

\* url and title_snippet as the filter reads them
FilterUrl(item) == Lower(item.link)
FilterText(item) == Lower(item.title \o Space \o item.snippet)

HasUkDomain(item) ==
    \E d \in 1..Len(uk_domains) : Contains(uk_domains[d], FilterUrl(item))
HasUkKeyword(item) ==
    \E k \in 1..Len(uk_keywords) : Contains(uk_keywords[k], FilterText(item))
\* Faulty variant: the exclusion tokens are looked for in the title and snippet only
HasNonUkIndicatorTextOnly(item) ==
    \E n \in 1..Len(non_uk_indicators) :
        Contains(non_uk_indicators[n], FilterText(item))

HasNonUkIndicator(item) ==
    \E n \in 1..Len(non_uk_indicators) :
        \/ Contains(non_uk_indicators[n], FilterUrl(item))
        \/ Contains(non_uk_indicators[n], FilterText(item))

\* Faulty variant: a hit with no signal at all is dropped
IsUkRelevantStrict(item, scope) ==
    IF "UK" \notin scope THEN TRUE
    ELSE IF HasUkDomain(item) THEN TRUE
    ELSE IF HasUkKeyword(item) THEN TRUE
    ELSE FALSE

\* Faulty variant: the scope is not consulted, every scan is filtered as a UK scan
IsUkRelevantIgnoringScope(item, scope) ==
    IF HasUkDomain(item) THEN TRUE
    ELSE IF HasUkKeyword(item) THEN TRUE
    ELSE IF HasNonUkIndicator(item) THEN FALSE
    ELSE TRUE

\* Faulty variant: no hit is rejected
IsUkRelevantAlways(item, scope) == TRUE

_is_uk_relevant(item, scope) ==
    IF "UK" \notin scope THEN TRUE
    ELSE IF HasUkDomain(item) THEN TRUE
    ELSE IF HasUkKeyword(item) THEN TRUE
    ELSE IF HasNonUkIndicator(item) THEN FALSE
    ELSE TRUE

\* ------------------------------------------------------------------ _extract_date_from_result

MetatagFields == <<"article:published_time", "date", "pubdate", "last-modified">>
PagemapSources == <<"newsarticle", "article", "webpage">>

Returned(v) == [raised |-> FALSE, val |-> v]
Raised(e) == [raised |-> TRUE, val |-> e]

\* pagemap.get('metatags', [{}])
MetatagsOf(pm) == IF "metatags" \in pm.keys THEN pm.lists["metatags"] ELSE <<NoDict>>

\* the first non-empty metatags[0].get(field), in the order of date_fields
MetatagDate(pm) ==
    LET tags == MetatagsOf(pm)
        hits == IF tags = <<>> THEN {}
                ELSE {f \in 1..Len(MetatagFields) : DictGet(tags[1], MetatagFields[f]) # ""}
    IN IF hits = {} THEN ""
       ELSE DictGet(tags[1], MetatagFields[CHOOSE f \in hits : \A g \in hits : f <= g])

RECURSIVE SourceDate(_, _)
\* the loop over ['newsarticle', 'article', 'webpage'], from source number s on
SourceDate(pm, s) ==
    IF s > Len(PagemapSources) THEN Returned("Recent")
    ELSE LET src == PagemapSources[s] IN
         IF src \notin pm.keys THEN SourceDate(pm, s + 1)
         ELSE IF pm.lists[src] = <<>> THEN Raised("IndexError")
         ELSE LET d == pm.lists[src][1]
                  v == IF DictGet(d, "datepublished") # ""
                       THEN DictGet(d, "datepublished") ELSE DictGet(d, "datemodified")
              IN IF v # "" THEN Returned(v) ELSE SourceDate(pm, s + 1)

_extract_date_from_result(item) ==
    IF MetatagDate(item.pagemap) # "" THEN Returned(MetatagDate(item.pagemap))
    ELSE SourceDate(item.pagemap, 1)

\* ------------------------------------------------------------------ SearchHit

\* search_result of execute_google_search, for an item whose date was extracted
SearchResult(item, query) ==
    [title |-> item.title,
     url |-> item.link,
     snippet |-> item.snippet,
     source |-> item.displayLink,
     date |-> _extract_date_from_result(item).val,
     query |-> query,
     content |-> item.snippet]


\* ------------------------------------------------------------------ the model response

\* An element of the response's "insights": its JSON type, the keys it carries (an
\* object) and their values.
InsightKeys == {"title", "category", "impact_level", "summary", "insights",
                "recommended_actions", "suppliers_mentioned", "relevance_score"}

InsightGood ==
    [t |-> "object", keys |-> InsightKeys,
     title |-> <<"T","1">>, category |-> "Financial Intelligence",
     impact_level |-> "High", summary |-> <<"S","1">>,
     insights |-> <<"i1">>, recommended_actions |-> <<"a1">>,
     suppliers_mentioned |-> <<"s1">>, relevance_score |-> 85]
\* {}: every field falls back to its default
InsightBare == [InsightGood EXCEPT !.keys = {}]
\* values outside the requested schema
InsightOutOfSchema ==
    [InsightGood EXCEPT !.category = "Other", !.impact_level = "Critical",
                        !.relevance_score = 150]
\* an element that is not an object, e.g. "oops"
InsightNotObject == [InsightGood EXCEPT !.t = "string", !.keys = {}]

InsightUniverse == {InsightGood, InsightBare, InsightOutOfSchema, InsightNotObject}

\* insight.get(k, default)
InsightGet(insight, k, default) == IF k \in insight.keys THEN insight[k] ELSE default

\* The parsed document: its JSON type, whether it carries "insights", the JSON type
\* of that value and, when it can be iterated, its elements.
Doc(t, hasInsights, insightsT, elems) ==
    [t |-> t, keys |-> IF hasInsights THEN {"insights"} ELSE {},
     insightsT |-> insightsT, insights |-> elems]

\* result = {"insights": []}
EmptyResult == Doc("object", TRUE, "array", <<>>)

Docs ==
    {Doc("object", TRUE, "array", l) : l \in SeqsUpTo(InsightUniverse, MaxInsights)}
    \cup {Doc("array", FALSE, "null", <<>>),            \* [ ... ]
          Doc("object", FALSE, "null", <<>>),           \* {}
          Doc("object", TRUE, "null", <<>>),            \* {"insights": null}
          Doc("object", TRUE, "string", <<InsightNotObject>>)}  \* {"insights": "x"}

\* response.choices[0].message.content: None or "", a text that is no JSON, a JSON text
Content(kind, doc) == [kind |-> kind, doc |-> doc]
NoContent == Content("empty", EmptyResult)
Contents ==
    {NoContent, Content("malformed", EmptyResult)} \cup {Content("json", d) : d \in Docs}

\* chat.completions.create: raises, or answers with a content
ModelOutcomes == {[raises |-> TRUE, content |-> NoContent]}
                 \cup {[raises |-> FALSE, content |-> c] : c \in Contents}

\* json.loads(content)
JsonLoads(c) == IF c.kind = "json" THEN Returned(c.doc) ELSE Raised("JSONDecodeError")

\* Faulty variant: result['insights'] instead of result.get('insights', [])
EnumerateInsightsStrict(doc) ==
    IF doc.t # "object" THEN Raised("AttributeError")
    ELSE IF "insights" \notin doc.keys THEN Raised("KeyError")
    ELSE IF doc.insightsT \notin {"array", "string", "object"} THEN Raised("TypeError")
    ELSE Returned(doc.insights)

\* enumerate(result.get('insights', [])): the elements, or the exception
EnumerateInsights(doc) ==
    IF doc.t # "object" THEN Raised("AttributeError")
    ELSE IF "insights" \notin doc.keys THEN Returned(<<>>)
    ELSE IF doc.insightsT \notin {"array", "string", "object"} THEN Raised("TypeError")
    ELSE Returned(doc.insights)

\* ------------------------------------------------------------------ AlertRecord

DefaultScore == 70
FallbackScore == 60
SummaryLimit == 200

MarketIntelligenceNo == <<"M","a","r","k","e","t"," ","I","n","t","e","l","l","i","g",
                          "e","n","c","e"," ","#">>

\* Faulty variant: the index is clamped to the last hit instead of wrapping
SourceIndexClamped(i, hits) == IF Len(hits) > 0 THEN Min(i, Len(hits) - 1) ELSE 0

\* i % len(snippet_data) if snippet_data else 0   (i is 0-based)
SourceIndex(i, hits) == IF Len(hits) > 0 THEN i % Len(hits) ELSE 0

\* processed_result of insight number i (0-based)
ProcessedResult(insight, i, hits, now) ==
    LET hasSource == Len(hits) > 0
        source_data == IF hasSource THEN hits[SourceIndex(i, hits) + 1] ELSE <<>>
    IN [id |-> [kind |-> "insight", time |-> now, i |-> i],
        title |-> InsightGet(insight, "title", MarketIntelligenceNo \o Decimal(i + 1)),
        category |-> InsightGet(insight, "category", "Market Trends"),
        impact_level |-> InsightGet(insight, "impact_level", "Medium"),
        summary |-> InsightGet(insight, "summary", <<>>),
        insights |-> InsightGet(insight, "insights", <<>>),
        recommended_actions |-> InsightGet(insight, "recommended_actions", <<>>),
        suppliers_mentioned |-> InsightGet(insight, "suppliers_mentioned", <<>>),
        relevance_score |-> InsightGet(insight, "relevance_score", DefaultScore),
        source |-> IF hasSource THEN source_data.source ELSE "Market Intelligence",
        url |-> IF hasSource THEN source_data.url ELSE <<>>,
        timestamp |-> IF hasSource THEN source_data.date ELSE "Recent",
        intelligence_type |-> InsightGet(insight, "category", "Market Trends")]

\* Faulty variant: the fallback record takes the normal path's default score
FallbackResultDefaultScore(item, i, now) ==
    [id |-> [kind |-> "fallback", time |-> now, i |-> i],
     title |-> item.title,
     category |-> "Market Trends",
     impact_level |-> "Medium",
     summary |-> Prefix(item.content, SummaryLimit) \o Ellipsis,
     insights |-> <<"Market information available">>,
     recommended_actions |-> <<"Review detailed source information">>,
     suppliers_mentioned |-> <<>>,
     relevance_score |-> DefaultScore,
     source |-> item.source,
     url |-> item.url,
     timestamp |-> item.date,
     intelligence_type |-> "Market Trends"]

\* fallback_result of hit number i (0-based)
FallbackResult(item, i, now) ==
    [id |-> [kind |-> "fallback", time |-> now, i |-> i],
     title |-> item.title,
     category |-> "Market Trends",
     impact_level |-> "Medium",
     summary |-> Prefix(item.content, SummaryLimit) \o Ellipsis,
     insights |-> <<"Market information available">>,
     recommended_actions |-> <<"Review detailed source information">>,
     suppliers_mentioned |-> <<>>,
     relevance_score |-> FallbackScore,
     source |-> item.source,
     url |-> item.url,
     timestamp |-> item.date,
     intelligence_type |-> "Market Trends"]

\* ------------------------------------------------------------------ scan configurations

MarketConfig ==
    [market_categories |-> <<"Infrastructure", "Technology">>,
     intelligence_types |-> <<>>, suppliers |-> <<>>]
SupplierConfig ==
    [market_categories |-> <<>>,
     intelligence_types |-> <<"Financial Intelligence", "Competitive Intelligence">>,
     suppliers |-> <<"s1">>]
BareConfig == [market_categories |-> <<>>, intelligence_types |-> <<>>, suppliers |-> <<>>]
Configs == {MarketConfig, SupplierConfig, BareConfig}

\* analysis_focus of the prompt
AnalysisFocus(cfg) ==
    IF cfg.market_categories # <<>> THEN "market intelligence across sectors"
    ELSE IF cfg.intelligence_types # <<>> THEN "supplier intelligence insights"
    ELSE "market intelligence"

\* The prompt of the one batch call: its focus, suppliers and the snippets joined
Prompt(hits, cfg) ==
    [focus |-> AnalysisFocus(cfg), suppliers |-> cfg.suppliers,
     snippets |-> [i \in 1..Len(hits) |->
                     <<hits[i].title, hits[i].source, hits[i].date, hits[i].content>>]]

\* The hits the extractor is given: search results of the retrieval
HitUniverse == {SearchResult(ItemGovUk, "q1"), SearchResult(ItemDotUs, "q2")}


\* ------------------------------------------------------------------ analyze_snippets_with_openai

\* Subclasses of Exception: the provider's error, json.loads' error, .get on a value
\* that is no dict, enumerate of a value that is no iterable, a missing key.
ExceptionClasses ==
    {"APIError", "JSONDecodeError", "AttributeError", "TypeError", "KeyError"}

\* Faulty variant: except json.JSONDecodeError as e
CaughtJsonOnly(e) == e = "JSONDecodeError"

\* except Exception as e
Caught(e) == e \in ExceptionClasses

\* Faulty variant: the call is issued again after it failed
OnModelErrorRetry == "call"

\* where the call's failure leads: the except clause (no second call)
OnModelError == "except"

ExtractIdle ==
    /\ openai_client = FALSE
    /\ snippet_data = <<>>
    /\ config = BareConfig
    /\ xpc = "off"
    /\ content = NoContent
    /\ result = EmptyResult
    /\ insightIdx = 0
    /\ analyzed_results = <<>>
    /\ exc = "none"
    /\ modelCalls = <<>>
    /\ clock = 0

ExtractInit ==
    /\ openai_client \in BOOLEAN
    /\ snippet_data \in SeqsUpTo(HitUniverse, MaxHits)
    /\ config \in Configs
    /\ xpc = "idle"
    /\ content = NoContent
    /\ result = EmptyResult
    /\ insightIdx = 0
    /\ analyzed_results = <<>>
    /\ exc = "none"
    /\ modelCalls = <<>>
    /\ clock = 0

\* lines 252-259: the client check
ExtractStart ==
    /\ xpc = "idle"
    /\ IF ~openai_client
       THEN /\ uiLog' = Append(uiLog, "OpenAI API not configured")
            /\ xpc' = "returned"
       ELSE /\ xpc' = "call"
            /\ UNCHANGED uiLog
    /\ UNCHANGED <<openai_client, snippet_data, config, content, result, insightIdx,
                   analyzed_results, exc, modelCalls, clock>>

\* lines 263-323: the prompt and the one call
ModelCall ==
    /\ xpc = "call"
    /\ modelCalls' = Append(modelCalls, Prompt(snippet_data, config))
    /\ \E out \in ModelOutcomes :
         IF out.raises
         THEN /\ exc' = "APIError"
              /\ xpc' = OnModelError
              /\ UNCHANGED content
         ELSE /\ content' = out.content
              /\ xpc' = "parse"
              /\ UNCHANGED exc
    /\ UNCHANGED <<openai_client, snippet_data, config, result, insightIdx,
                   analyzed_results, clock, uiLog>>

\* lines 324-327
ParseContent ==
    /\ xpc = "parse"
    /\ IF content.kind = "empty"
       THEN /\ result' = EmptyResult
            /\ xpc' = "enumerate"
            /\ UNCHANGED exc
       ELSE IF JsonLoads(content).raised
       THEN /\ exc' = JsonLoads(content).val
            /\ xpc' = "except"
            /\ UNCHANGED result
       ELSE /\ result' = JsonLoads(content).val
            /\ xpc' = "enumerate"
            /\ UNCHANGED exc
    /\ UNCHANGED <<openai_client, snippet_data, config, content, insightIdx,
                   analyzed_results, modelCalls, clock, uiLog>>

\* line 330: result.get('insights', []) and enumerate
BeginInsights ==
    /\ xpc = "enumerate"
    /\ IF EnumerateInsights(result).raised
       THEN /\ exc' = EnumerateInsights(result).val
            /\ xpc' = "except"
       ELSE /\ xpc' = "loop"
            /\ UNCHANGED exc
    /\ insightIdx' = 0
    /\ UNCHANGED <<openai_client, snippet_data, config, content, result,
                   analyzed_results, modelCalls, clock, uiLog>>

\* lines 330-350: one turn of the loop over the insights
ProcessInsight ==
    /\ xpc = "loop"
    /\ insightIdx < Len(EnumerateInsights(result).val)
    /\ LET insight == EnumerateInsights(result).val[insightIdx + 1] IN
       IF insight.t # "object"
       THEN /\ exc' = "AttributeError"
            /\ xpc' = "except"
            /\ UNCHANGED <<analyzed_results, insightIdx>>
       ELSE /\ analyzed_results' =
                   Append(analyzed_results,
                          ProcessedResult(insight, insightIdx, snippet_data, clock))
            /\ insightIdx' = insightIdx + 1
            /\ UNCHANGED <<exc, xpc>>
    /\ UNCHANGED <<openai_client, snippet_data, config, content, result,
                   modelCalls, clock, uiLog>>

\* the loop is exhausted: line 373
EndInsights ==
    /\ xpc = "loop"
    /\ insightIdx = Len(EnumerateInsights(result).val)
    /\ xpc' = "returned"
    /\ UNCHANGED <<openai_client, snippet_data, config, content, result, insightIdx,
                   analyzed_results, exc, modelCalls, clock, uiLog>>

\* lines 352-353: the except clause
HandleException ==
    /\ xpc = "except"
    /\ IF Caught(exc)
       THEN /\ uiLog' = Append(uiLog, "OpenAI analysis error")
            /\ xpc' = "fallback"
            /\ insightIdx' = 0
       ELSE /\ xpc' = "raised"
            /\ UNCHANGED <<uiLog, insightIdx>>
    /\ UNCHANGED <<openai_client, snippet_data, config, content, result, exc,
                   analyzed_results, modelCalls, clock>>

\* lines 355-371: one turn of the fallback loop over the hits
FallbackItem ==
    /\ xpc = "fallback"
    /\ insightIdx < Len(snippet_data)
    /\ analyzed_results' =
           Append(analyzed_results,
                  FallbackResult(snippet_data[insightIdx + 1], insightIdx, clock))
    /\ insightIdx' = insightIdx + 1
    /\ UNCHANGED <<openai_client, snippet_data, config, xpc, content, result, exc,
                   modelCalls, clock, uiLog>>

\* the fallback loop is exhausted: line 373
EndFallback ==
    /\ xpc = "fallback"
    /\ insightIdx = Len(snippet_data)
    /\ xpc' = "returned"
    /\ UNCHANGED <<openai_client, snippet_data, config, content, result, insightIdx,
                   analyzed_results, exc, modelCalls, clock, uiLog>>

\* a second of the wall clock passes while records are being built
Tick ==
    /\ xpc \in {"loop", "fallback"}
    /\ clock < MaxClock
    /\ clock' = clock + 1
    /\ UNCHANGED <<openai_client, snippet_data, config, xpc, content, result,
                   insightIdx, analyzed_results, exc, modelCalls, uiLog>>

\* what the caller receives
ExtractReturned == xpc = "returned"
ReturnValue == analyzed_results
TookFallback == exc # "none"


\* ------------------------------------------------------------------ execute_google_search

RawItems == {ItemGovUk, ItemDotUs, ItemUsCalifornia, ItemEdu}

\* .execute() of one search call: HttpError, another exception (network), or a result
\* that carries 'items' or not; the items of one result are different pages
Response(kind, hasItems, items) == [kind |-> kind, hasItems |-> hasItems, items |-> items]
Responses ==
    {Response("HttpError", FALSE, <<>>), Response("Exception", FALSE, <<>>),
     Response("ok", FALSE, <<>>)}
    \cup {Response("ok", TRUE, l) :
             l \in {m \in SeqsUpTo(RawItems, MaxItems) :
                      \A a, b \in 1..Len(m) : a # b => m[a] # m[b]}}

\* search_params of one call (cx and dateRestrict are passed through from the session
\* and the time range and take no part in the control flow)
SearchParams(query, scope) ==
    IF "UK" \in scope
    THEN [q |-> query, siteFilter |-> TRUE, num |-> 10, gl |-> "uk", hl |-> "en-GB"]
    ELSE [q |-> query, siteFilter |-> FALSE, num |-> 10, gl |-> "", hl |-> ""]

QueryName(i) == "q" \o ToString(i)
SearchScopes == {{"UK"}, {"EU"}}

\* Faulty variant: the try block encloses the whole loop: a failure ends the batch
AfterQueryErrorAbort == "returned"

\* what the iteration does once its try block has raised: report, go to the next query
AfterQueryError == "query"

SearchIdle ==
    /\ google_service = FALSE
    /\ queries = <<>>
    /\ geographic_scope = {"UK"}
    /\ spc = "off"
    /\ qIdx = 0
    /\ pending = <<>>
    /\ all_results = <<>>
    /\ provided = <<>>
    /\ sleeps = <<>>

SearchInit ==
    /\ google_service \in BOOLEAN
    /\ \E n \in 0..MaxQueries : queries = [i \in 1..n |-> QueryName(i)]
    /\ geographic_scope \in SearchScopes
    /\ spc = "idle"
    /\ qIdx = 0
    /\ pending = <<>>
    /\ all_results = <<>>
    /\ provided = <<>>
    /\ sleeps = <<>>

\* lines 118-127
SearchStart ==
    /\ spc = "idle"
    /\ IF ~google_service
       THEN /\ uiLog' = Append(uiLog, "Google Search API not configured")
            /\ spc' = "returned"
            /\ UNCHANGED qIdx
       ELSE /\ spc' = "query"
            /\ qIdx' = 1
            /\ UNCHANGED uiLog
    /\ UNCHANGED <<google_service, queries, geographic_scope, pending, all_results,
                   provided, sleeps>>

\* lines 129-153 and 172-175: one search call, and its failure
IssueSearch ==
    /\ spc = "query"
    /\ qIdx <= Len(queries)
    /\ \E r \in Responses :
         /\ provided' = Append(provided,
                [params |-> SearchParams(queries[qIdx], geographic_scope), response |-> r])
         /\ IF r.kind # "ok"
            THEN /\ uiLog' = Append(uiLog, IF r.kind = "HttpError"
                                           THEN "Google Search API error"
                                           ELSE "Unexpected error during search")
                 /\ sleeps' = Append(sleeps, FALSE)
                 /\ spc' = AfterQueryError
                 /\ qIdx' = qIdx + 1
                 /\ UNCHANGED pending
            ELSE /\ pending' = IF r.hasItems THEN r.items ELSE <<>>
                 /\ spc' = "items"
                 /\ UNCHANGED <<uiLog, sleeps, qIdx>>
    /\ UNCHANGED <<google_service, queries, geographic_scope, all_results>>

\* line 158: self._is_uk_relevant(item, geographic_scope), for every item the
\* provider can return and every scope of a retrieval
FilterVerdicts ==
    [item \in RawItems |->
        [scope \in SearchScopes |-> _is_uk_relevant(item, scope)]]

\* lines 156-168: one turn of the loop over result['items']
ProcessItem ==
    /\ spc = "items"
    /\ pending # <<>>
    /\ LET item == Head(pending) IN
       IF ~FilterVerdicts[item][geographic_scope]
       THEN /\ pending' = Tail(pending)
            /\ UNCHANGED <<all_results, uiLog, sleeps, spc, qIdx>>
       ELSE IF _extract_date_from_result(item).raised
       THEN /\ uiLog' = Append(uiLog, "Unexpected error during search")
            /\ sleeps' = Append(sleeps, FALSE)
            /\ pending' = <<>>
            /\ spc' = AfterQueryError
            /\ qIdx' = qIdx + 1
            /\ UNCHANGED all_results
       ELSE /\ all_results' = Append(all_results, SearchResult(item, queries[qIdx]))
            /\ pending' = Tail(pending)
            /\ UNCHANGED <<uiLog, sleeps, spc, qIdx>>
    /\ UNCHANGED <<google_service, queries, geographic_scope, provided>>

\* line 170: time.sleep(1.0) once the items are done
SleepAfterQuery ==
    /\ spc = "items"
    /\ pending = <<>>
    /\ sleeps' = Append(sleeps, TRUE)
    /\ spc' = "query"
    /\ qIdx' = qIdx + 1
    /\ UNCHANGED <<google_service, queries, geographic_scope, pending, all_results,
                   provided, uiLog>>

\* line 177
SearchReturn ==
    /\ spc = "query"
    /\ qIdx > Len(queries)
    /\ spc' = "returned"
    /\ UNCHANGED <<google_service, queries, geographic_scope, qIdx, pending,
                   all_results, provided, sleeps, uiLog>>

\* ------------------------------------------------------------------ the filter on one item

FilterLinks ==
    { <<"a",".","G","O","V",".","u","k">>, <<"h",".","a","c",".","u","k">>,
      <<"g",".","c","o",".","u","k">>, <<"f",".","o","r","g",".","u","k","/","p">>,
      <<"e",".","n","h","s",".","u","k">>, <<"b",".","u","s">>, <<"c",".","c","o","m">>,
      <<"d",".","e","d","u","/","x">>, <<>> }
FilterTitles ==
    { <<"U","S","A"," ","p","i","p","e","s">>, <<"P","u","m","p","s">>,
      <<"U","k","r","a","i","n","e">>, <<"O","f","w","a","t">>, <<>> }
FilterSnippets ==
    { <<"n","e","w"," ","v","a","l","v","e","s">>,
      <<"i","n"," ","C","a","l","i","f","o","r","n","i","a">>, <<"W","a","l","e","s">> }
FilterPagemaps ==
    { NoPagemap,
      PagemapWith("metatags", <<>>),
      PagemapWith("metatags", <<NoDict>>),
      PagemapWith("metatags", <<DictWith("pubdate", "2024-05-01")>>),
      PagemapWith("article", <<DictWith("datemodified", "2024-06-02")>>),
      PagemapWith("webpage", <<NoDict>>),
      PagemapWith("newsarticle", <<>>) }
FilterScopes == {{"UK"}, {"EU"}, {"UK", "EU"}, {}}

FilterIdle ==
    /\ fItem = ItemDotUs
    /\ fScope = {}
    /\ fpc = "off"
    /\ fVerdict = FALSE
    /\ fDate = Returned("")

FilterInit ==
    /\ \E l \in FilterLinks, t \in FilterTitles, sn \in FilterSnippets,
          pm \in FilterPagemaps :
         fItem = [link |-> l, title |-> t, snippet |-> sn, displayLink |-> "x",
                  pagemap |-> pm]
    /\ fScope \in FilterScopes
    /\ fpc = "idle"
    /\ fVerdict = FALSE
    /\ fDate = Returned("")

\* self._is_uk_relevant(item, geographic_scope)
ApplyFilter ==
    /\ fpc = "idle"
    /\ fVerdict' = _is_uk_relevant(fItem, fScope)
    /\ fpc' = "filtered"
    /\ UNCHANGED <<fItem, fScope, fDate>>

\* self._extract_date_from_result(item)
ExtractDate ==
    /\ fpc = "filtered"
    /\ fDate' = _extract_date_from_result(fItem)
    /\ fpc' = "dated"
    /\ UNCHANGED <<fItem, fScope, fVerdict>>

\* ------------------------------------------------------------------ query builders of the entry points

\* the first n elements: s[:n]
Take(s, n) == SubSeq(s, 1, Min(n, Len(s)))

\* geo_filter of the three builders
GeoFilter(cfg) ==
    IF "UK" \in cfg.geographic_scope THEN "site:gov.uk OR site:co.uk OR site:ac.uk" ELSE ""

build_market_category_queries(category, cfg) ==
    LET industry == cfg.industry_sector
        geo_filter == GeoFilter(cfg)
        qs == CASE category = "Infrastructure" ->
                     << industry \o " infrastructure projects UK 2024 " \o geo_filter,
                        "major infrastructure investment UK " \o industry \o " " \o geo_filter,
                        "infrastructure capacity constraints UK " \o geo_filter >>
                [] category = "Technology" ->
                     << industry \o " technology innovation UK 2024 " \o geo_filter,
                        "digital transformation " \o industry \o " UK " \o geo_filter,
                        "emerging technology " \o industry \o " UK " \o geo_filter >>
                [] category = "Services" ->
                     << industry \o " consulting services UK market " \o geo_filter,
                        "service delivery models " \o industry \o " UK " \o geo_filter >>
                [] category = "Materials" ->
                     << industry \o " materials supply chain UK " \o geo_filter,
                        "material pricing trends UK " \o industry \o " " \o geo_filter >>
                [] category = "Equipment" ->
                     << industry \o " equipment technology UK " \o geo_filter,
                        "equipment suppliers UK " \o industry \o " " \o geo_filter >>
                [] OTHER -> <<>>
    IN Take(qs, 3)

\* the words a supplier query carries for an intelligence type, "" if it has none
SupplierPhrase(intel_type) ==
    CASE intel_type = "Financial Intelligence" -> "investment funding acquisition"
      [] intel_type = "Regulatory & Compliance" -> "regulation compliance standards"
      [] intel_type = "Government Programs" -> "government framework tender"
      [] intel_type = "Innovation Tracking" -> "innovation R&D technology"
      [] intel_type = "Competitive Intelligence" -> "contract award wins"
      [] OTHER -> ""

build_supplier_intelligence_queries(intel_type, cfg) ==
    LET suppliers == Take(cfg.suppliers, 2)
        geo_filter == GeoFilter(cfg)
        qs == IF SupplierPhrase(intel_type) = "" THEN <<>>
              ELSE [i \in 1..Len(suppliers) |->
                       "\"" \o suppliers[i] \o "\" " \o SupplierPhrase(intel_type)
                            \o " UK " \o geo_filter]
    IN Take(qs, 3)

\* the queries one intelligence type adds in build_search_queries
QueriesOfType(intel_type, cfg) ==
    LET geo_filter == GeoFilter(cfg)
        categories == cfg.categories
        three == Take(cfg.suppliers, 3)
        two == Take(cfg.suppliers, 2)
    IN CASE intel_type = "Market Trends" ->
              [i \in 1..Len(categories) |->
                  categories[i] \o " market trends UK 2024 " \o geo_filter]
         [] intel_type = "Regulatory & Compliance" ->
              << "regulation compliance standards UK infrastructure " \o geo_filter >>
         [] intel_type = "Financial Intelligence" ->
              [i \in 1..Len(three) |->
                  "\"" \o three[i] \o "\" investment funding UK " \o geo_filter]
         [] intel_type = "Government Programs" ->
              << "government framework infrastructure procurement UK " \o geo_filter >>
         [] intel_type = "Innovation Tracking" ->
              [i \in 1..Len(categories) |->
                  categories[i] \o " innovation technology UK 2024 " \o geo_filter]
         [] intel_type = "Competitive Intelligence" ->
              [i \in 1..Len(two) |->
                  "\"" \o two[i] \o "\" contract award UK " \o geo_filter]
         [] OTHER -> <<>>

RECURSIVE QueriesOfTypes(_, _)
QueriesOfTypes(types, cfg) ==
    IF types = <<>> THEN <<>>
    ELSE QueriesOfType(Head(types), cfg) \o QueriesOfTypes(Tail(types), cfg)

build_search_queries(cfg) == Take(QueriesOfTypes(cfg.intelligence_types, cfg), 5)

\* ------------------------------------------------------------------ the two stages as the entry points call them

RECURSIVE KeptHits(_, _, _)
\* the loop over result['items'] of one query: an item the filter rejects is
\* skipped, a date extraction that raises ends the loop with what was appended
KeptHits(items, query, scope) ==
    IF items = <<>> THEN <<>>
    ELSE IF ~_is_uk_relevant(Head(items), scope) THEN KeptHits(Tail(items), query, scope)
    ELSE IF _extract_date_from_result(Head(items)).raised THEN <<>>
    ELSE <<SearchResult(Head(items), query)>> \o KeptHits(Tail(items), query, scope)

\* line 170: time.sleep(1.0) is the last statement of the try block: it runs when
\* the call returned and no hit's date extraction raised
SleepReached(scope, r) ==
    /\ r.kind = "ok"
    /\ ~(r.hasItems /\ \E i \in 1..Len(r.items) :
             /\ _is_uk_relevant(r.items[i], scope)
             /\ _extract_date_from_result(r.items[i]).raised)

\* scanner.execute_google_search([query], config) once the provider answered r
ExecuteOneQuery(query, scope, r) ==
    IF r.kind # "ok" THEN <<>>
    ELSE KeptHits(IF r.hasItems THEN r.items ELSE <<>>, query, scope)

\* the fallback loop: one record per hit
FallbackRecords(hits, now) ==
    [i \in 1..Len(hits) |-> FallbackResult(hits[i], i - 1, now)]

RECURSIVE InsightRecords(_, _, _, _)
\* the loop over the insights from number i (0-based) on: the records appended,
\* followed by the fallback records when an element that is no object raises
InsightRecords(insights, i, hits, now) ==
    IF i >= Len(insights) THEN <<>>
    ELSE IF insights[i + 1].t # "object" THEN FallbackRecords(hits, now)
    ELSE <<ProcessedResult(insights[i + 1], i, hits, now)>>
             \o InsightRecords(insights, i + 1, hits, now)

\* scanner.analyze_snippets_with_openai(hits, cfg) once the model answered out
AnalyzeSnippets(hits, client, out, now) ==
    IF ~client THEN <<>>
    ELSE IF out.raises THEN FallbackRecords(hits, now)
    ELSE IF out.content.kind = "empty" THEN <<>>
    ELSE IF JsonLoads(out.content).raised THEN FallbackRecords(hits, now)
    ELSE IF EnumerateInsights(JsonLoads(out.content).val).raised
         THEN FallbackRecords(hits, now)
    ELSE InsightRecords(EnumerateInsights(JsonLoads(out.content).val).val, 0, hits, now)

\* ------------------------------------------------------------------ scan entry points and the alert store

\* the configurations the three entry points read from the session
market_intelligence_config ==
    [market_categories |-> <<"Services">>, intelligence_types |-> <<>>,
     suppliers |-> <<>>, categories |-> <<>>,
     industry_sector |-> "infrastructure", geographic_scope |-> {"UK"}]
supplier_intelligence_config ==
    [market_categories |-> <<>>, intelligence_types |-> <<"Financial Intelligence">>,
     suppliers |-> <<"s1">>, categories |-> <<>>,
     industry_sector |-> "infrastructure", geographic_scope |-> {"UK"}]
market_config ==
    [market_categories |-> <<>>, intelligence_types |-> <<"Competitive Intelligence">>,
     suppliers |-> <<"s1">>, categories |-> <<"Water">>,
     industry_sector |-> "infrastructure", geographic_scope |-> {"UK"}]

\* an entry point and the category (or intelligence type) it is invoked for
Target(entry, category) == [entry |-> entry, category |-> category]
NoTarget == Target("none", "")
ScanTargets ==
    {Target("generate_market_category_alerts", "Services"),
     Target("generate_supplier_intelligence_alerts", "Financial Intelligence"),
     Target("generate_market_alerts", ""),
     Target("generate_all_market_intelligence", "Services")}

\* the entry points that scan market categories: one category, or each in turn
CategoryEntries == {"generate_market_category_alerts", "generate_all_market_intelligence"}

ConfigOf(t) ==
    CASE t.entry \in CategoryEntries -> market_intelligence_config
      [] t.entry = "generate_supplier_intelligence_alerts" -> supplier_intelligence_config
      [] OTHER -> market_config

QueriesOf(t) ==
    CASE t.entry \in CategoryEntries ->
             build_market_category_queries(t.category, ConfigOf(t))
      [] t.entry = "generate_supplier_intelligence_alerts" ->
             build_supplier_intelligence_queries(t.category, ConfigOf(t))
      [] OTHER -> build_search_queries(ConfigOf(t))

\* Faulty variant: every entry point stores under the one key market_alerts
AlertKeyShared(t) == "market_alerts"

\* the session key an entry point stores under
AlertKey(t) ==
    CASE t.entry \in CategoryEntries -> "market_alerts_" \o t.category
      [] t.entry = "generate_supplier_intelligence_alerts" ->
             "supplier_alerts_" \o t.category
      [] OTHER -> "market_alerts"

AlertKeys == {"market_alerts_Services", "supplier_alerts_Financial Intelligence",
              "market_alerts"}

\* a key of st.session_state: not set, or set to a list of records
Entry(present, value) == [present |-> present, value |-> value]
AbsentEntry == Entry(FALSE, <<>>)

\* Faulty variant: the new records are appended to the ones held
StoreAppend(old, new) == old.value \o new

\* st.session_state[alerts_key] = analyzed_results
StoreAssign(old, new) == new

\* what the current-intelligence view renders for a key: the records held, none
\* when the key is not set or holds an empty list (the placeholder is shown)
ReadAlerts(key) ==
    IF session_state[key].present /\ session_state[key].value # <<>>
    THEN session_state[key].value
    ELSE <<>>

\* what the provider and the model may answer to the calls of a scan
\* a page of a UK domain whose pagemap names a source with an empty list: its
\* date extraction raises
ItemGovUkEmptySource ==
    [ItemGovUk EXCEPT !.link = <<"d",".","g","o","v",".","u","k">>,
                      !.displayLink = "d.gov.uk",
                      !.pagemap = PagemapWith("newsarticle", <<>>)]
ScanResponses ==
    {Response("HttpError", FALSE, <<>>), Response("ok", FALSE, <<>>),
     Response("ok", TRUE, <<ItemGovUk>>),
     Response("ok", TRUE, <<ItemGovUk, ItemGovUkEmptySource>>)}
ScanModelOutcomes ==
    {[raises |-> TRUE, content |-> NoContent],
     [raises |-> FALSE, content |-> NoContent],
     [raises |-> FALSE,
      content |-> Content("json", Doc("object", TRUE, "array", <<InsightGood>>))],
     [raises |-> FALSE,
      content |-> Content("json", Doc("object", TRUE, "array",
                                      <<InsightBare, InsightNotObject>>))]}

\* the two flows that may run a scan at the same time
Flows == {"a", "b"}

IdleScan ==
    [pc |-> "idle", target |-> NoTarget, queries |-> <<>>, qi |-> 0,
     search_results |-> <<>>, analyzed_results |-> <<>>, calls |-> 0,
     model_calls |-> 0, log |-> <<>>, stored |-> FALSE, replaced |-> AbsentEntry,
     before |-> AbsentEntry]

\* the locals of a scan that has built its queries
FreshScan(t, held) ==
    [IdleScan EXCEPT !.pc = "search", !.target = t, !.queries = QueriesOf(t), !.qi = 1,
                     !.before = held]

ScanIdle ==
    /\ session_state = [k \in AlertKeys |-> AbsentEntry]
    /\ last_writer = [k \in AlertKeys |-> "none"]
    /\ openai_key = FALSE
    /\ google_key = FALSE
    /\ scans = [p \in Flows |-> IdleScan]
    /\ started = 0
    /\ wall_clock = 0

ScanInit ==
    /\ session_state = [k \in AlertKeys |-> AbsentEntry]
    /\ last_writer = [k \in AlertKeys |-> "none"]
    /\ openai_key \in BOOLEAN
    /\ google_key \in BOOLEAN
    /\ scans = [p \in Flows |-> IdleScan]
    /\ started = 0
    /\ wall_clock = 0

\* the entry point is invoked: MarketScanner() and the query builder
BeginScan(p) ==
    /\ scans[p].pc = "idle"
    /\ \E t \in ScanTargets :
         scans' = [scans EXCEPT ![p] = FreshScan(t, session_state[AlertKey(t)])]
    /\ started' = started + 1
    /\ UNCHANGED <<session_state, last_writer, openai_key, google_key, wall_clock>>

\* an entry point is invoked again in the same session, after a scan has ended
Rescan(p) ==
    /\ scans[p].pc = "done"
    /\ started < MaxScans
    /\ \E t \in ScanTargets :
         scans' = [scans EXCEPT ![p] = FreshScan(t, session_state[AlertKey(t)])]
    /\ started' = started + 1
    /\ UNCHANGED <<session_state, last_writer, openai_key, google_key, wall_clock>>

\* one turn of "for query in queries": execute_google_search([query], config),
\* whose time.sleep(1.0) lets at least one second pass when it is reached
SearchQuery(p) ==
    LET sc == scans[p]
        scope == ConfigOf(sc.target).geographic_scope
    IN
    /\ sc.pc = "search"
    /\ sc.qi <= Len(sc.queries)
    /\ IF ~google_key
       THEN /\ scans' = [scans EXCEPT
                           ![p].log = Append(@, "Google Search API not configured"),
                           ![p].qi = @ + 1]
            /\ UNCHANGED wall_clock
       ELSE \E r \in ScanResponses :
              /\ scans' = [scans EXCEPT
                             ![p].calls = @ + 1,
                             ![p].search_results =
                                 @ \o ExecuteOneQuery(sc.queries[sc.qi], scope, r),
                             ![p].log = IF r.kind = "ok" THEN @
                                        ELSE Append(@, "Google Search API error"),
                             ![p].qi = @ + 1]
              /\ IF SleepReached(scope, r)
                 THEN wall_clock < MaxTime /\ wall_clock' = wall_clock + 1
                 ELSE UNCHANGED wall_clock
    /\ UNCHANGED <<session_state, last_writer, openai_key, google_key, started>>

\* the wall clock reaches the next whole second while the session does nothing
\* or waits for an answer
TimePasses ==
    /\ wall_clock < MaxTime
    /\ wall_clock' = wall_clock + 1
    /\ UNCHANGED <<session_state, last_writer, openai_key, google_key, scans, started>>

\* what an entry point says when the searches of a category found nothing: the
\* single scans warn (lines 756, 786, 1035); generate_all_market_intelligence has
\* no else branch, its loop ends and line 1552 reports success
SaidOnNoResults(t) ==
    IF t.entry = "generate_all_market_intelligence"
    THEN "Generated intelligence insights for all"
    ELSE "No search results found"

\* what an entry point says once it has stored (lines 754, 784, 1044, 1552)
SaidOnStore(t) ==
    IF t.entry = "generate_all_market_intelligence"
    THEN "Generated intelligence insights for all"
    ELSE "Generated alerts"

\* the searches found nothing: nothing is stored
NoResults(p) ==
    LET sc == scans[p] IN
    /\ sc.pc = "search"
    /\ sc.qi > Len(sc.queries)
    /\ sc.search_results = <<>>
    /\ scans' = [scans EXCEPT ![p].log = Append(@, SaidOnNoResults(sc.target)),
                              ![p].pc = "done"]
    /\ UNCHANGED <<session_state, last_writer, openai_key, google_key, started, wall_clock>>

\* analyze_snippets_with_openai(search_results, config); generate_market_alerts
\* ends here with a warning when no record came back
Analyze(p) ==
    LET sc == scans[p] IN
    /\ sc.pc = "search"
    /\ sc.qi > Len(sc.queries)
    /\ sc.search_results # <<>>
    /\ \E out \in ScanModelOutcomes :
         LET recs == AnalyzeSnippets(sc.search_results, openai_key, out, wall_clock)
             said == IF ~openai_key THEN Append(sc.log, "OpenAI API not configured")
                     ELSE sc.log
         IN IF sc.target.entry = "generate_market_alerts" /\ recs = <<>>
            THEN scans' = [scans EXCEPT
                             ![p].analyzed_results = recs,
                             ![p].model_calls = IF openai_key THEN @ + 1 ELSE @,
                             ![p].log = Append(said, "No alerts could be generated"),
                             ![p].pc = "done"]
            ELSE scans' = [scans EXCEPT
                             ![p].analyzed_results = recs,
                             ![p].model_calls = IF openai_key THEN @ + 1 ELSE @,
                             ![p].log = said,
                             ![p].pc = "store"]
    /\ UNCHANGED <<session_state, last_writer, openai_key, google_key, started, wall_clock>>

\* st.session_state[alerts_key] = analyzed_results, and the success message
Store(p) ==
    LET sc == scans[p]
        key == AlertKey(sc.target)
    IN /\ sc.pc = "store"
       /\ session_state' =
              [session_state EXCEPT
                 ![key] = Entry(TRUE, StoreAssign(@, sc.analyzed_results))]
       /\ last_writer' = [last_writer EXCEPT ![key] = p]
       /\ scans' = [scans EXCEPT ![p].stored = TRUE,
                                 ![p].replaced = session_state[key],
                                 ![p].log = Append(@, SaidOnStore(sc.target)),
                                 ![p].pc = "done"]
       /\ UNCHANGED <<openai_key, google_key, started, wall_clock>>

\* ------------------------------------------------------------------ construct_search_queries

\* " ".join(components)
RECURSIVE Join(_)
Join(components) ==
    IF components = <<>> THEN <<>>
    ELSE IF Len(components) = 1 THEN components[1]
    ELSE components[1] \o Space \o Join(Tail(components))

\* st.session_state.contextual_trigger_data: None, or a dict with type, name, category
NoTrigger == [set |-> FALSE, type |-> "", name |-> <<>>, category |-> <<>>]
SourcingTrigger ==
    [set |-> TRUE, type |-> "sourcing_package",
     name |-> <<"P","i","p","e","s">>, category |-> <<"M","a","t","e","r","i","a","l","s">>]
OtherTrigger == [SourcingTrigger EXCEPT !.type = "supplier"]
Triggers == {NoTrigger, SourcingTrigger, OtherTrigger}

\* the configuration: the keys the dict carries and their values (a key that is
\* not carried has no value)
ScanConfigKeys == {"geo_focus", "sub_sectors", "categories", "keywords"}
GeoChoices == {<<>>, <<"U","n","i","t","e","d"," ","K","i","n","g","d","o","m">>}
SubSectorChoices ==
    {<<>>, <<<<"I","n","f","r","a","s","t","r","u","c","t","u","r","e">>>>, <<<<"E","n","e","r","g","y">>, <<"T","r","a","n","s","p","o","r","t">>>>}
CategoryChoices ==
    {<<>>, <<<<"M","a","r","k","e","t"," ","T","r","e","n","d","s">>>>,
     <<<<"I","n","v","e","s","t","m","e","n","t">>, <<"I","n","n","o","v","a","t","i","o","n">>>>}
KeywordChoices == {<<>>, <<"B","I","M">>}
RefinementChoices == {<<>>, <<"2","0","2","4">>}
ScanConfigs ==
    {c \in [keys : SUBSET ScanConfigKeys, geo_focus : GeoChoices,
            sub_sectors : SubSectorChoices, categories : CategoryChoices,
            keywords : KeywordChoices] :
        \A k \in ScanConfigKeys \ c.keys : c[k] = <<>>}
EmptyScanConfig ==
    [keys |-> {}, geo_focus |-> <<>>, sub_sectors |-> <<>>, categories |-> <<>>,
     keywords |-> <<>>]

\* 'k' in config and config['k']
Configured(cfg, k) == k \in cfg.keys /\ cfg[k] # <<>>

\* line 98: the fixed domain terms
FixedTerms ==
    << <<"b","u","i","l","t"," ","a","s","s","e","t","s">>,
       <<"c","o","n","s","t","r","u","c","t","i","o","n">>,
       <<"i","n","f","r","a","s","t","r","u","c","t","u","r","e">> >>

\* lines 80-98: base_components
BaseComponents(cfg, refinement) ==
    (IF Configured(cfg, "geo_focus") THEN <<cfg.geo_focus>> ELSE <<>>)
    \o (IF Configured(cfg, "sub_sectors") THEN cfg.sub_sectors ELSE <<>>)
    \o (IF Configured(cfg, "categories") THEN cfg.categories ELSE <<>>)
    \o (IF Configured(cfg, "keywords") THEN <<cfg.keywords>> ELSE <<>>)
    \o (IF refinement # <<>> THEN <<refinement>> ELSE <<>>)
    \o FixedTerms

\* Faulty variant: the primary query takes every component
MainComponentsAll(base) == base

\* line 102: base_components[:6]
MainComponents(base) == Take(base, 6)

\* line 112: the query of the else branch
DefaultQuery ==
    <<"U","K"," ","b","u","i","l","t"," ","a","s","s","e","t","s"," ","c","o","n","s","t","r","u","c","t","i","o","n"," ","m","a","r","k","e","t"," ","t","r","e","n","d","s"," ","2","0","2","4">>

\* lines 100-114: the queries built from the components
QueriesFromComponents(base) ==
    LET built ==
          IF base # <<>>
          THEN <<Join(MainComponents(base))>>
               \o (IF Len(base) > 3
                   THEN << Join(<<base[1], base[2], <<"m","a","r","k","e","t"," ","a","n","a","l","y","s","i","s">>, <<"2","0","2","4">>>>),
                           Join(<<base[1], <<"p","r","o","c","u","r","e","m","e","n","t">>, <<"s","u","p","p","l","i","e","r","s">>, <<"t","r","e","n","d","s">>>>) >>
                   ELSE <<>>)
          ELSE <<DefaultQuery>>
    IN Take(built, 3)

\* line 73: the query of a sourcing-package trigger
TriggerQuery(t) ==
    t.name \o Space \o t.category \o Space \o <<"m","a","r","k","e","t"," ","t","r","e","n","d","s"," ","s","u","p","p","l","i","e","r","s"," ","U","K">>

\* one call of the builder, as the log keeps it
Built(found, components, qs) ==
    [pending |-> found, components |-> components, queries |-> qs]

\* Faulty variant: the trigger is left in the session
TriggerAfterUseKept(t) == t

\* line 76: st.session_state.contextual_trigger_data = None
TriggerAfterUse(t) == NoTrigger

QueryIdle ==
    /\ scan_config = EmptyScanConfig
    /\ refinement_keywords = <<>>
    /\ contextual_trigger_data = NoTrigger
    /\ trigger = NoTrigger
    /\ base_components = <<>>
    /\ built_queries = <<>>
    /\ bpc = "off"
    /\ build_log = <<>>

QueryInit ==
    /\ scan_config \in ScanConfigs
    /\ refinement_keywords \in RefinementChoices
    /\ contextual_trigger_data \in Triggers
    /\ trigger = NoTrigger
    /\ base_components = <<>>
    /\ built_queries = <<>>
    /\ bpc = "idle"
    /\ build_log = <<>>

\* lines 69-77: a sourcing-package trigger is pending: its query, the trigger is cleared
ConstructFromTrigger ==
    /\ bpc = "idle"
    /\ contextual_trigger_data.set
    /\ contextual_trigger_data.type = "sourcing_package"
    /\ trigger' = contextual_trigger_data
    /\ built_queries' = <<TriggerQuery(contextual_trigger_data)>>
    /\ contextual_trigger_data' = TriggerAfterUse(contextual_trigger_data)
    /\ bpc' = "returned"
    /\ build_log' = Append(build_log,
                           Built(contextual_trigger_data, <<>>,
                                 <<TriggerQuery(contextual_trigger_data)>>))
    /\ UNCHANGED <<scan_config, refinement_keywords, base_components>>

\* lines 69-71 and 79-114: no such trigger: the queries of the configuration
ConstructFromConfig ==
    /\ bpc = "idle"
    /\ ~(contextual_trigger_data.set /\ contextual_trigger_data.type = "sourcing_package")
    /\ trigger' = contextual_trigger_data
    /\ base_components' = BaseComponents(scan_config, refinement_keywords)
    /\ built_queries' =
           QueriesFromComponents(BaseComponents(scan_config, refinement_keywords))
    /\ bpc' = "returned"
    /\ build_log' =
           Append(build_log,
                  Built(contextual_trigger_data,
                        BaseComponents(scan_config, refinement_keywords),
                        QueriesFromComponents(
                            BaseComponents(scan_config, refinement_keywords))))
    /\ UNCHANGED <<scan_config, refinement_keywords, contextual_trigger_data>>

\* the builder is called again in the same session, with the same arguments and
\* no new trigger
BuildAgain ==
    /\ bpc = "returned"
    /\ Len(build_log) < MaxBuilds
    /\ trigger' = NoTrigger
    /\ base_components' = <<>>
    /\ built_queries' = <<>>
    /\ bpc' = "idle"
    /\ UNCHANGED <<scan_config, refinement_keywords, contextual_trigger_data, build_log>>

\* ------------------------------------------------------------------ execute_market_scan

\* the urls a caller can name and the search can find
Urls == {"u1", "u2"}

\* line 565: the entry of a direct url
DirectEntry(u) == [url |-> u, query |-> "Direct URL"]

\* lines 563-565: the entries of the non-blank lines of direct_urls
RECURSIVE DirectEntries(_)
DirectEntries(lines) ==
    IF lines = <<>> THEN <<>>
    ELSE <<DirectEntry(Head(lines))>> \o DirectEntries(Tail(lines))

\* the urls of a list of entries, in order
RECURSIVE UrlsOf(_)
UrlsOf(entries) ==
    IF entries = <<>> THEN <<>> ELSE <<Head(entries).url>> \o UrlsOf(Tail(entries))

\* Faulty variant: every entry is kept
RemoveDuplicatesNone(entries, seen) == entries

\* lines 580-587: seen_urls and unique_urls
RECURSIVE RemoveDuplicates(_, _)
RemoveDuplicates(entries, seen) ==
    IF entries = <<>> THEN <<>>
    ELSE IF Head(entries).url \in seen
         THEN RemoveDuplicates(Tail(entries), seen)
         ELSE <<Head(entries)>>
              \o RemoveDuplicates(Tail(entries), seen \cup {Head(entries).url})

\* line 590: unique_urls[:num_results]
CrawlList(unique, n) == Take(unique, n)

\* get_website_text_content on one url: text of more than 100 characters, less, or
\* an exception
FetchOutcomes == {"content", "insufficient", "error"}

\* the language model on one crawled page: the three answers, or an exception
AnalysisOutcomes == {"analysed", "error"}

\* lines 517-535: the record of one crawled page
Analysed(item, outcome) == [url |-> item.url, error |-> outcome = "error"]

\* lines 431-537: analyze_with_openai
RECURSIVE AnalyseAll(_, _)
AnalyseAll(crawled, outcomes) ==
    IF crawled = <<>> THEN <<>>
    ELSE <<Analysed(Head(crawled), Head(outcomes))>>
         \o AnalyseAll(Tail(crawled), Tail(outcomes))

\* lines 62-114: what construct_search_queries returns for a configuration, a
\* refinement and the trigger of the session
ConstructedQueries(cfg, refinement, t) ==
    IF t.set /\ t.type = "sourcing_package"
    THEN <<TriggerQuery(t)>>
    ELSE QueriesFromComponents(BaseComponents(cfg, refinement))

\* a MarketScanner after setup_apis: which clients it holds
Scanners ==
    {sc \in [openai_client : BOOLEAN, google_service : BOOLEAN] :
        sc.google_service => sc.openai_client}

MarketIdle ==
    /\ scanner = [openai_client |-> FALSE, google_service |-> FALSE]
    /\ api_keys = FALSE
    /\ direct_urls = <<>>
    /\ num_results = 1
    /\ market_queries = <<>>
    /\ all_urls = <<>>
    /\ unique_urls = <<>>
    /\ crawl_list = <<>>
    /\ processed_urls = {}
    /\ crawled_content = <<>>
    /\ fetched = <<>>
    /\ mpc = "idle"
    /\ scan_outcome = Returned(<<>>)

\* a scanner, the three keys present or not, any direct urls and result count
MarketInit ==
    /\ api_keys \in BOOLEAN
    /\ scanner \in {sc \in Scanners : sc.openai_client => api_keys}
    /\ direct_urls \in SeqsUpTo(Urls, MaxUrls)
    /\ num_results \in 1..MaxResults
    /\ market_queries = <<>>
    /\ all_urls = <<>>
    /\ unique_urls = <<>>
    /\ crawl_list = <<>>
    /\ processed_urls = {}
    /\ crawled_content = <<>>
    /\ fetched = <<>>
    /\ mpc = "validate"
    /\ scan_outcome = Returned(<<>>)

\* lines 558-559: validate_api_keys
ValidateApiKeys ==
    /\ mpc = "validate"
    /\ IF api_keys
       THEN /\ mpc' = "collect"
            /\ UNCHANGED <<scan_outcome, uiLog>>
       ELSE /\ uiLog' = Append(uiLog, "API keys are missing")
            /\ scan_outcome' = Returned(<<>>)
            /\ mpc' = "returned"
    /\ UNCHANGED <<scanner, api_keys, direct_urls, num_results, market_queries,
                   all_urls, unique_urls, crawl_list, processed_urls,
                   crawled_content, fetched>>

\* lines 561-574: the direct urls, then the search when they are fewer than
\* num_results. The search is called with num_results where it expects the
\* configuration: with no service it returns [] at line 120, with a service
\* line 123 calls .get on the number, outside every try
CollectUrls ==
    /\ mpc = "collect"
    /\ LET direct == DirectEntries(direct_urls) IN
       IF direct_urls = <<>> \/ Len(direct) < num_results
       THEN \E cfg \in ScanConfigs, refinement \in RefinementChoices, t \in Triggers :
              LET built == ConstructedQueries(cfg, refinement, t) IN
              /\ market_queries' = built
              /\ IF built # <<>> /\ scanner.google_service
                 THEN /\ scan_outcome' = Raised("AttributeError")
                      /\ mpc' = "raised"
                      /\ UNCHANGED <<all_urls, uiLog>>
                 ELSE /\ all_urls' = direct
                      /\ uiLog' = IF built # <<>>
                                  THEN Append(uiLog, "Google Search API not configured")
                                  ELSE uiLog
                      /\ mpc' = "deduplicate"
                      /\ UNCHANGED scan_outcome
       ELSE /\ all_urls' = direct
            /\ mpc' = "deduplicate"
            /\ UNCHANGED <<market_queries, scan_outcome, uiLog>>
    /\ UNCHANGED <<scanner, api_keys, direct_urls, num_results, unique_urls,
                   crawl_list, processed_urls, crawled_content, fetched>>

\* lines 576-590: nothing to crawl, or the duplicates removed and the list cut
Deduplicate ==
    /\ mpc = "deduplicate"
    /\ IF all_urls = <<>>
       THEN /\ uiLog' = Append(uiLog, "No URLs found to crawl")
            /\ scan_outcome' = Returned(<<>>)
            /\ mpc' = "returned"
            /\ UNCHANGED <<unique_urls, crawl_list>>
       ELSE /\ unique_urls' = RemoveDuplicates(all_urls, {})
            /\ crawl_list' = CrawlList(unique_urls', num_results)
            /\ mpc' = "crawl"
            /\ UNCHANGED <<scan_outcome, uiLog>>
    /\ UNCHANGED <<scanner, api_keys, direct_urls, num_results, market_queries,
                   all_urls, processed_urls, crawled_content, fetched>>

\* lines 380-414: one iteration of the loop of crawl_urls
CrawlUrl ==
    /\ mpc = "crawl"
    /\ crawl_list # <<>>
    /\ LET url_info == Head(crawl_list) IN
       /\ crawl_list' = Tail(crawl_list)
       /\ IF url_info.url \in processed_urls
          THEN UNCHANGED <<processed_urls, crawled_content, fetched, uiLog>>
          ELSE /\ processed_urls' = processed_urls \cup {url_info.url}
               /\ fetched' = Append(fetched, url_info.url)
               /\ \E outcome \in FetchOutcomes :
                    /\ crawled_content' =
                         IF outcome = "content"
                         THEN Append(crawled_content, url_info)
                         ELSE crawled_content
                    /\ uiLog' =
                         CASE outcome = "content" -> uiLog
                           [] outcome = "insufficient" ->
                                Append(uiLog, "Insufficient content extracted")
                           [] outcome = "error" -> Append(uiLog, "Failed to crawl")
    /\ UNCHANGED <<scanner, api_keys, direct_urls, num_results, market_queries,
                   all_urls, unique_urls, mpc, scan_outcome>>

\* lines 592-599 and analyze_with_openai: nothing crawled, or every page analysed
AnalyzeCrawled ==
    /\ mpc = "crawl"
    /\ crawl_list = <<>>
    /\ IF crawled_content = <<>>
       THEN /\ uiLog' = Append(uiLog, "No content successfully crawled")
            /\ scan_outcome' = Returned(<<>>)
       ELSE IF ~scanner.openai_client
            THEN /\ uiLog' = Append(uiLog, "OpenAI API not configured")
                 /\ scan_outcome' = Returned(<<>>)
            ELSE \E outcomes \in [1..Len(crawled_content) -> AnalysisOutcomes] :
                   /\ scan_outcome' = Returned(AnalyseAll(crawled_content, outcomes))
                   /\ uiLog' = IF \E i \in DOMAIN outcomes : outcomes[i] = "error"
                               THEN Append(uiLog, "Failed to analyze content")
                               ELSE uiLog
    /\ mpc' = "returned"
    /\ UNCHANGED <<scanner, api_keys, direct_urls, num_results, market_queries,
                   all_urls, unique_urls, crawl_list, processed_urls,
                   crawled_content, fetched>>

\* ------------------------------------------------------------------ the query builders on any configuration

\* the names suppliers carry, and the supplier lists a configuration may hold
\* (none: manual entry only with nothing entered, lines 165-167)
SupplierNames == <<"s1", "s2", "s3", "s4", "s5", "s6">>
SupplierLists == {Take(SupplierNames, n) : n \in 0..MaxSuppliers}

\* lines 929-946: the market categories and the intelligence types of the forms
MarketCategories == {"Infrastructure", "Technology", "Services", "Materials", "Equipment"}
IntelligenceTypes ==
    {"Financial Intelligence", "Regulatory & Compliance", "Government Programs",
     "Innovation Tracking", "Competitive Intelligence"}

\* the selections of intelligence types and of categories a configuration may hold
TypeSelections ==
    {<<>>, <<"Market Trends">>,
     <<"Regulatory & Compliance", "Government Programs">>,
     <<"Financial Intelligence", "Competitive Intelligence">>,
     <<"Market Trends", "Innovation Tracking", "Financial Intelligence">>}
CategorySelections == {<<>>, <<"Water">>, <<"Water", "Rail">>}

BuilderConfigs ==
    [market_categories : {<<>>}, intelligence_types : TypeSelections,
     suppliers : SupplierLists, categories : CategorySelections,
     industry_sector : {"infrastructure"}, geographic_scope : {{"UK"}, {"EU"}}]

BuilderIdle ==
    /\ build_config = market_config
    /\ build_entry = "none"
    /\ build_category = ""
    /\ build_result = <<>>

\* any configuration, no builder applied yet
BuilderInit ==
    /\ build_config \in BuilderConfigs
    /\ build_entry = "none"
    /\ build_category = ""
    /\ build_result = <<>>

\* line 739: build_market_category_queries(category, config)
BuildMarketCategory ==
    /\ build_entry = "none"
    /\ \E category \in MarketCategories :
         /\ build_category' = category
         /\ build_result' = build_market_category_queries(category, build_config)
    /\ build_entry' = "build_market_category_queries"
    /\ UNCHANGED build_config

\* line 769: build_supplier_intelligence_queries(intel_type, config)
BuildSupplierIntelligence ==
    /\ build_entry = "none"
    /\ \E intel_type \in IntelligenceTypes :
         /\ build_category' = intel_type
         /\ build_result' = build_supplier_intelligence_queries(intel_type, build_config)
    /\ build_entry' = "build_supplier_intelligence_queries"
    /\ UNCHANGED build_config

\* line 1026: build_search_queries(config)
BuildSearch ==
    /\ build_entry = "none"
    /\ build_category' = ""
    /\ build_result' = build_search_queries(build_config)
    /\ build_entry' = "build_search_queries"
    /\ UNCHANGED build_config

\* ------------------------------------------------------------------ the timeline of one category and its archive

\* the historical entries of the category, as generate_historical_intelligence_data
\* numbers them (line 2543: "id": f"event_{category}_{i}")
TimelineEntry(i) == [id |-> i, impact_level |-> IF i = 1 THEN "High" ELSE "Medium"]
GeneratedTimelines == {[i \in 1..n |-> TimelineEntry(i)] : n \in 1..MaxEntries}

\* lines 2914-2917: the items whose id differs from the archived entry's
RECURSIVE WithoutId(_, _)
WithoutId(items, id) ==
    IF items = <<>> THEN <<>>
    ELSE IF Head(items).id = id THEN WithoutId(Tail(items), id)
    ELSE <<Head(items)>> \o WithoutId(Tail(items), id)

TimelineIdle ==
    /\ timeline_data = AbsentEntry
    /\ market_timeline = AbsentEntry
    /\ archived_timeline = AbsentEntry
    /\ displayed = <<>>
    /\ archived_entry = TimelineEntry(0)
    /\ tpc = "off"

\* a session that has not opened the timeline of the category yet
TimelineInit ==
    /\ timeline_data = AbsentEntry
    /\ market_timeline = AbsentEntry
    /\ archived_timeline = AbsentEntry
    /\ displayed = <<>>
    /\ archived_entry = TimelineEntry(0)
    /\ tpc = "start"

\* lines 407-438: render_integrated_timeline_view reads timeline_data_{category},
\* generating it when the key is not set, and displays its entries
RenderIntegratedTimeline ==
    /\ tpc \in {"start", "shown", "archived"}
    /\ IF timeline_data.present
       THEN UNCHANGED timeline_data
       ELSE \E generated \in GeneratedTimelines :
              timeline_data' = Entry(TRUE, generated)
    /\ displayed' = timeline_data'.value
    /\ tpc' = "shown"
    /\ UNCHANGED <<market_timeline, archived_timeline, archived_entry>>

\* lines 2337-2339: render_market_timeline_view sets market_timeline_{category}
\* to [] when the key is not set
RenderMarketTimeline ==
    /\ tpc \in {"start", "shown", "archived"}
    /\ ~market_timeline.present
    /\ market_timeline' = Entry(TRUE, <<>>)
    /\ UNCHANGED <<timeline_data, archived_timeline, displayed, archived_entry, tpc>>

\* lines 627-629 and 2903-2917: the archive button of a displayed entry:
\* archive_timeline_entry(entry, category_name)
ArchiveTimelineEntry ==
    /\ tpc = "shown"
    /\ Len(archived_timeline.value) < MaxArchived
    /\ \E i \in 1..Len(displayed) :
         LET entry == displayed[i] IN
         /\ archived_timeline' = Entry(TRUE, Append(archived_timeline.value, entry))
         /\ market_timeline' =
               IF market_timeline.present
               THEN Entry(TRUE, WithoutId(market_timeline.value, entry.id))
               ELSE market_timeline
         /\ archived_entry' = entry
    /\ tpc' = "archived"
    /\ UNCHANGED <<timeline_data, displayed>>

\* ------------------------------------------------------------------ crawl_with_depth (web_scraper.py)

\* the pages of a site, by number
Pages == 1..MaxPages

\* lines 45-79: what get_internal_links can return for a page: the same-site
\* links in the order they stand on it, a link as often as it stands there,
\* never the page itself (line 70)
LinksOf(p) == SeqsUpTo(Pages \ {p}, MaxLinks)

\* line 87: [(url, 0) for url in starting_urls]
RECURSIVE AtDepth(_, _)
AtDepth(urls, d) ==
    IF urls = <<>> THEN <<>>
    ELSE <<[url |-> Head(urls), depth |-> d]>> \o AtDepth(Tail(urls), d)

\* Faulty variant: a url is never taken for processed
AlreadyProcessedNever(url, processed) == FALSE

\* line 93: current_url in processed_urls
AlreadyProcessed(url, processed) == url \in processed

\* lines 111-113: the links not processed yet, one level deeper
RECURSIVE LinksToAppend(_, _, _)
LinksToAppend(links, processed, d) ==
    IF links = <<>> THEN <<>>
    ELSE IF Head(links) \in processed THEN LinksToAppend(Tail(links), processed, d)
    ELSE <<[url |-> Head(links), depth |-> d + 1]>>
         \o LinksToAppend(Tail(links), processed, d)

\* what the network does for one page: the text is fetched and the html too; the
\* text is fetched but the html is not (fetch_url returns None); the text fetch
\* raises; the text is fetched and the html fetch raises
PageOutcomes == {"text and html", "text only", "text raises", "html raises"}

\* crawled_content: no key for a page, its text, or "Error: ..."
NoContentYet == [p \in Pages |-> "absent"]

CrawlIdle ==
    /\ starting_urls = <<>>
    /\ max_depth = 0
    /\ urls_to_process = <<>>
    /\ crawl_processed = {}
    /\ page_content = NoContentYet
    /\ visits = <<>>
    /\ iterations = 0
    /\ cpc = "off"

\* lines 86-88: any starting urls and depth; the locals as initialised
CrawlInit ==
    /\ starting_urls \in SeqsUpTo(Pages, MaxStart)
    /\ max_depth \in 0..MaxDepth
    /\ urls_to_process = AtDepth(starting_urls, 0)
    /\ crawl_processed = {}
    /\ page_content = NoContentYet
    /\ visits = <<>>
    /\ iterations = 0
    /\ cpc = "loop"

\* lines 90-94: an entry is popped and skipped
CrawlSkip ==
    /\ cpc = "loop"
    /\ urls_to_process # <<>>
    /\ LET current == Head(urls_to_process) IN
       \/ AlreadyProcessed(current.url, crawl_processed)
       \/ current.depth > max_depth
    /\ urls_to_process' = Tail(urls_to_process)
    /\ iterations' = iterations + 1
    /\ UNCHANGED <<starting_urls, max_depth, crawl_processed,
                   page_content, visits, cpc>>

\* lines 90-121: an entry is popped and its page is crawled
CrawlPage ==
    /\ cpc = "loop"
    /\ urls_to_process # <<>>
    /\ LET current == Head(urls_to_process) IN
       /\ ~AlreadyProcessed(current.url, crawl_processed)
       /\ current.depth <= max_depth
       /\ crawl_processed' = crawl_processed \cup {current.url}
       /\ \E outcome \in PageOutcomes, links \in LinksOf(current.url) :
            /\ outcome \in {"text and html", "html raises"} => current.depth < max_depth
            /\ outcome # "text and html" => links = <<>>
            /\ page_content' =
                  [page_content EXCEPT
                     ![current.url] = IF outcome \in {"text raises", "html raises"}
                                      THEN "error" ELSE "text"]
            /\ urls_to_process' =
                  Tail(urls_to_process)
                  \o (IF outcome = "text and html"
                      THEN LinksToAppend(links, crawl_processed', current.depth)
                      ELSE <<>>)
            /\ visits' = Append(visits,
                                [url |-> current.url, depth |-> current.depth,
                                 links |-> links,
                                 failed |-> outcome \in {"text raises", "html raises"}])
    /\ iterations' = iterations + 1
    /\ UNCHANGED <<starting_urls, max_depth, cpc>>

\* lines 90 and 123: the queue is empty, crawled_content is returned
CrawlReturn ==
    /\ cpc = "loop"
    /\ urls_to_process = <<>>
    /\ cpc' = "returned"
    /\ UNCHANGED <<starting_urls, max_depth, urls_to_process,
                   crawl_processed, page_content, visits, iterations>>

\* ------------------------------------------------------------------ specifications

\* the insight extractor, invoked once on any hits, configuration and model answer
InitExtract == ExtractInit /\ SearchIdle /\ FilterIdle /\ ScanIdle /\ QueryIdle /\ MarketIdle /\ BuilderIdle /\ TimelineIdle /\ CrawlIdle /\ uiLog = <<>>
NextExtract ==
    \/ (ExtractStart /\ UNCHANGED <<searchVars, filterVars, scanVars, queryVars, marketVars, builderVars, timelineVars, crawlVars>>)
    \/ (ModelCall /\ UNCHANGED <<searchVars, filterVars, scanVars, queryVars, marketVars, builderVars, timelineVars, crawlVars>>)
    \/ (ParseContent /\ UNCHANGED <<searchVars, filterVars, scanVars, queryVars, marketVars, builderVars, timelineVars, crawlVars>>)
    \/ (BeginInsights /\ UNCHANGED <<searchVars, filterVars, scanVars, queryVars, marketVars, builderVars, timelineVars, crawlVars>>)
    \/ (ProcessInsight /\ UNCHANGED <<searchVars, filterVars, scanVars, queryVars, marketVars, builderVars, timelineVars, crawlVars>>)
    \/ (EndInsights /\ UNCHANGED <<searchVars, filterVars, scanVars, queryVars, marketVars, builderVars, timelineVars, crawlVars>>)
    \/ (HandleException /\ UNCHANGED <<searchVars, filterVars, scanVars, queryVars, marketVars, builderVars, timelineVars, crawlVars>>)
    \/ (FallbackItem /\ UNCHANGED <<searchVars, filterVars, scanVars, queryVars, marketVars, builderVars, timelineVars, crawlVars>>)
    \/ (EndFallback /\ UNCHANGED <<searchVars, filterVars, scanVars, queryVars, marketVars, builderVars, timelineVars, crawlVars>>)
    \/ (Tick /\ UNCHANGED <<searchVars, filterVars, scanVars, queryVars, marketVars, builderVars, timelineVars, crawlVars>>)
SpecExtract == InitExtract /\ [][NextExtract]_vars

\* search retrieval, invoked once on any queries, scope and provider answers
InitSearch == SearchInit /\ ExtractIdle /\ FilterIdle /\ ScanIdle /\ QueryIdle /\ MarketIdle /\ BuilderIdle /\ TimelineIdle /\ CrawlIdle /\ uiLog = <<>>
NextSearch ==
    \/ (SearchStart /\ UNCHANGED <<extractVars, filterVars, scanVars, queryVars, marketVars, builderVars, timelineVars, crawlVars>>)
    \/ (IssueSearch /\ UNCHANGED <<extractVars, filterVars, scanVars, queryVars, marketVars, builderVars, timelineVars, crawlVars>>)
    \/ (ProcessItem /\ UNCHANGED <<extractVars, filterVars, scanVars, queryVars, marketVars, builderVars, timelineVars, crawlVars>>)
    \/ (SleepAfterQuery /\ UNCHANGED <<extractVars, filterVars, scanVars, queryVars, marketVars, builderVars, timelineVars, crawlVars>>)
    \/ (SearchReturn /\ UNCHANGED <<extractVars, filterVars, scanVars, queryVars, marketVars, builderVars, timelineVars, crawlVars>>)
SpecSearch == InitSearch /\ [][NextSearch]_vars

\* the relevance filter and the date extraction, applied to any one raw item
InitFilter == FilterInit /\ ExtractIdle /\ SearchIdle /\ ScanIdle /\ QueryIdle /\ MarketIdle /\ BuilderIdle /\ TimelineIdle /\ CrawlIdle /\ uiLog = <<>>
NextFilter ==
    \/ (ApplyFilter /\ UNCHANGED <<extractVars, searchVars, scanVars, queryVars, marketVars, builderVars, timelineVars, crawlVars, uiLog>>)
    \/ (ExtractDate /\ UNCHANGED <<extractVars, searchVars, scanVars, queryVars, marketVars, builderVars, timelineVars, crawlVars, uiLog>>)
SpecFilter == InitFilter /\ [][NextFilter]_vars

\* the scans of one session, one after the other
InitScan == ScanInit /\ ExtractIdle /\ SearchIdle /\ FilterIdle /\ QueryIdle /\ MarketIdle /\ BuilderIdle /\ TimelineIdle /\ CrawlIdle /\ uiLog = <<>>
NextScan ==
    \/ (BeginScan("a") /\ UNCHANGED <<extractVars, searchVars, filterVars, queryVars, marketVars, builderVars, timelineVars, crawlVars, uiLog>>)
    \/ (Rescan("a") /\ UNCHANGED <<extractVars, searchVars, filterVars, queryVars, marketVars, builderVars, timelineVars, crawlVars, uiLog>>)
    \/ (SearchQuery("a") /\ UNCHANGED <<extractVars, searchVars, filterVars, queryVars, marketVars, builderVars, timelineVars, crawlVars, uiLog>>)
    \/ (NoResults("a") /\ UNCHANGED <<extractVars, searchVars, filterVars, queryVars, marketVars, builderVars, timelineVars, crawlVars, uiLog>>)
    \/ (Analyze("a") /\ UNCHANGED <<extractVars, searchVars, filterVars, queryVars, marketVars, builderVars, timelineVars, crawlVars, uiLog>>)
    \/ (Store("a") /\ UNCHANGED <<extractVars, searchVars, filterVars, queryVars, marketVars, builderVars, timelineVars, crawlVars, uiLog>>)
    \/ (TimePasses /\ UNCHANGED <<extractVars, searchVars, filterVars, queryVars, marketVars, builderVars, timelineVars, crawlVars, uiLog>>)
SpecScan == InitScan /\ [][NextScan]_vars

\* two scans, one per flow, interleaved at every call and at the store
NextRace ==
    \E p \in Flows :
        \/ (BeginScan(p) /\ UNCHANGED <<extractVars, searchVars, filterVars, queryVars, marketVars, builderVars, timelineVars, crawlVars, uiLog>>)
        \/ (SearchQuery(p) /\ UNCHANGED <<extractVars, searchVars, filterVars, queryVars, marketVars, builderVars, timelineVars, crawlVars, uiLog>>)
        \/ (NoResults(p) /\ UNCHANGED <<extractVars, searchVars, filterVars, queryVars, marketVars, builderVars, timelineVars, crawlVars, uiLog>>)
        \/ (Analyze(p) /\ UNCHANGED <<extractVars, searchVars, filterVars, queryVars, marketVars, builderVars, timelineVars, crawlVars, uiLog>>)
        \/ (Store(p) /\ UNCHANGED <<extractVars, searchVars, filterVars, queryVars, marketVars, builderVars, timelineVars, crawlVars, uiLog>>)
        \/ (TimePasses /\ UNCHANGED <<extractVars, searchVars, filterVars, queryVars, marketVars, builderVars, timelineVars, crawlVars, uiLog>>)
SpecRace == InitScan /\ [][NextRace]_vars

\* the query builder, invoked once on any configuration, refinement and trigger
InitQuery ==
    QueryInit /\ ExtractIdle /\ SearchIdle /\ FilterIdle /\ ScanIdle /\ MarketIdle /\ BuilderIdle /\ TimelineIdle /\ CrawlIdle /\ uiLog = <<>>
NextQuery ==
    \/ (ConstructFromTrigger
          /\ UNCHANGED <<extractVars, searchVars, filterVars, scanVars, marketVars, builderVars, timelineVars, crawlVars, uiLog>>)
    \/ (ConstructFromConfig
          /\ UNCHANGED <<extractVars, searchVars, filterVars, scanVars, marketVars, builderVars, timelineVars, crawlVars, uiLog>>)
    \/ (BuildAgain
          /\ UNCHANGED <<extractVars, searchVars, filterVars, scanVars, marketVars, builderVars, timelineVars, crawlVars, uiLog>>)
SpecQuery == InitQuery /\ [][NextQuery]_vars

\* the filter on its own or inside a retrieval: either of the two runs
InitFilterOrSearch == InitFilter \/ InitSearch
NextFilterOrSearch == NextFilter \/ NextSearch
SpecFilterOrSearch == InitFilterOrSearch /\ [][NextFilterOrSearch]_vars

\* execute_market_scan, invoked once on any scanner, direct urls and result count
InitMarket ==
    MarketInit /\ ExtractIdle /\ SearchIdle /\ FilterIdle /\ ScanIdle /\ QueryIdle /\ BuilderIdle /\ TimelineIdle /\ CrawlIdle /\ uiLog = <<>>
NextMarket ==
    \/ (ValidateApiKeys /\ UNCHANGED <<extractVars, searchVars, filterVars, scanVars, queryVars, builderVars, timelineVars, crawlVars>>)
    \/ (CollectUrls /\ UNCHANGED <<extractVars, searchVars, filterVars, scanVars, queryVars, builderVars, timelineVars, crawlVars>>)
    \/ (Deduplicate /\ UNCHANGED <<extractVars, searchVars, filterVars, scanVars, queryVars, builderVars, timelineVars, crawlVars>>)
    \/ (CrawlUrl /\ UNCHANGED <<extractVars, searchVars, filterVars, scanVars, queryVars, builderVars, timelineVars, crawlVars>>)
    \/ (AnalyzeCrawled /\ UNCHANGED <<extractVars, searchVars, filterVars, scanVars, queryVars, builderVars, timelineVars, crawlVars>>)
SpecMarket == InitMarket /\ [][NextMarket]_vars

\* one query builder applied once to any configuration and category
InitBuilder ==
    BuilderInit /\ ExtractIdle /\ SearchIdle /\ FilterIdle /\ ScanIdle /\ QueryIdle
        /\ MarketIdle /\ TimelineIdle /\ CrawlIdle /\ uiLog = <<>>
NextBuilder ==
    \/ (BuildMarketCategory
          /\ UNCHANGED <<extractVars, searchVars, filterVars, scanVars, queryVars,
                         marketVars, timelineVars, crawlVars, uiLog>>)
    \/ (BuildSupplierIntelligence
          /\ UNCHANGED <<extractVars, searchVars, filterVars, scanVars, queryVars,
                         marketVars, timelineVars, crawlVars, uiLog>>)
    \/ (BuildSearch
          /\ UNCHANGED <<extractVars, searchVars, filterVars, scanVars, queryVars,
                         marketVars, timelineVars, crawlVars, uiLog>>)
SpecBuilder == InitBuilder /\ [][NextBuilder]_vars

\* the timeline of one category: rendered, entries archived, rendered again
InitTimeline ==
    TimelineInit /\ ExtractIdle /\ SearchIdle /\ FilterIdle /\ ScanIdle /\ QueryIdle
        /\ MarketIdle /\ BuilderIdle /\ CrawlIdle /\ uiLog = <<>>
NextTimeline ==
    \/ (RenderIntegratedTimeline
          /\ UNCHANGED <<extractVars, searchVars, filterVars, scanVars, queryVars,
                         marketVars, builderVars, crawlVars, uiLog>>)
    \/ (RenderMarketTimeline
          /\ UNCHANGED <<extractVars, searchVars, filterVars, scanVars, queryVars,
                         marketVars, builderVars, crawlVars, uiLog>>)
    \/ (ArchiveTimelineEntry
          /\ UNCHANGED <<extractVars, searchVars, filterVars, scanVars, queryVars,
                         marketVars, builderVars, crawlVars, uiLog>>)
SpecTimeline == InitTimeline /\ [][NextTimeline]_vars

\* crawl_with_depth, invoked once on any link graph, starting urls and depth
InitCrawl ==
    CrawlInit /\ ExtractIdle /\ SearchIdle /\ FilterIdle /\ ScanIdle /\ QueryIdle
        /\ MarketIdle /\ BuilderIdle /\ TimelineIdle /\ uiLog = <<>>
CrawlStep == CrawlSkip \/ CrawlPage \/ CrawlReturn
NextCrawl ==
    \/ (CrawlSkip
          /\ UNCHANGED <<extractVars, searchVars, filterVars, scanVars, queryVars,
                         marketVars, builderVars, timelineVars, uiLog>>)
    \/ (CrawlPage
          /\ UNCHANGED <<extractVars, searchVars, filterVars, scanVars, queryVars,
                         marketVars, builderVars, timelineVars, uiLog>>)
    \/ (CrawlReturn
          /\ UNCHANGED <<extractVars, searchVars, filterVars, scanVars, queryVars,
                         marketVars, builderVars, timelineVars, uiLog>>)
SpecCrawl == InitCrawl /\ [][NextCrawl]_vars


\* ------------------------------------------------------------------ properties: the extractor

\* The category enumerations of the two scan contexts
MarketCategoryEnum ==
    {"Infrastructure", "Technology", "Services", "Materials", "Equipment",
     "Market Trends", "Regulatory & Compliance", "Financial Intelligence",
     "Government Programs", "Innovation Tracking", "Competitive Intelligence"}
SupplierCategoryEnum ==
    {"Financial Intelligence", "Regulatory & Compliance", "Government Programs",
     "Innovation Tracking", "Competitive Intelligence"}

\* the enumeration of the context the configuration selects
ContextCategories(cfg) ==
    IF AnalysisFocus(cfg) = "supplier intelligence insights"
    THEN SupplierCategoryEnum ELSE MarketCategoryEnum

\* one turn of the extractor itself (the clock aside)
ExtractorStep ==
    \/ ExtractStart \/ ModelCall \/ ParseContent \/ BeginInsights \/ ProcessInsight
    \/ EndInsights \/ HandleException \/ FallbackItem \/ EndFallback

\* C1: the extractor never raises: no exception leaves the try/except, and in every
\* state before the return the extractor has a next step, for every hit list and
\* every outcome of the model call.
C1_NeverRaises ==
    /\ xpc # "raised"
    /\ xpc \in {"idle", "call", "parse", "enumerate", "loop", "except", "fallback"}
          => ENABLED (ExtractorStep /\ UNCHANGED <<searchVars, filterVars, scanVars, queryVars>>)

\* C1 witness: a response whose insight is not an object was met, with hits, and the
\* extractor returned.
C1_Witness ==
    /\ ExtractReturned
    /\ exc = "AttributeError"
    /\ content.kind = "json"
    /\ content.doc.t = "object"
    /\ Len(snippet_data) > 0

\* C2: every returned record has a relevance score in [0,1], an impact level in
\* {High, Medium, Low} and a category of the scan context's enumeration.
C2_RecordsWellFormed ==
    ExtractReturned =>
        \A k \in 1..Len(ReturnValue) :
            /\ ReturnValue[k].relevance_score \in 0..100
            /\ ReturnValue[k].impact_level \in {"High", "Medium", "Low"}
            /\ ReturnValue[k].category \in ContextCategories(config)

\* C3: when the model call raises, the extractor returns one fallback record per
\* hit, in hit order, with the hit's title, source and url, impact level Medium
\* and relevance score 0.6.
C3_FallbackOnCallError ==
    (ExtractReturned /\ exc = "APIError") =>
        /\ Len(ReturnValue) = Len(snippet_data)
        /\ \A k \in 1..Len(snippet_data) :
              /\ ReturnValue[k].title = snippet_data[k].title
              /\ ReturnValue[k].source = snippet_data[k].source
              /\ ReturnValue[k].url = snippet_data[k].url
              /\ ReturnValue[k].impact_level = "Medium"
              /\ ReturnValue[k].relevance_score = 60

\* C3 witness: the call raised on two different hits and the extractor returned.
C3_Witness ==
    /\ ExtractReturned
    /\ exc = "APIError"
    /\ Len(snippet_data) = 2
    /\ snippet_data[1] # snippet_data[2]
    /\ Len(ReturnValue) = 2

\* C4: whenever the fallback path is taken, the returned sequence is exactly one
\* fallback record per hit and holds no other record.
C4_FallbackOnly ==
    (ExtractReturned /\ TookFallback) =>
        /\ Len(ReturnValue) = Len(snippet_data)
        /\ \A k \in 1..Len(ReturnValue) : ReturnValue[k].id.kind = "fallback"

\* the response holds no insight: no content, or an object whose "insights" is
\* missing or has no element
HoldsNoInsight(c) ==
    \/ c.kind = "empty"
    \/ /\ c.kind = "json"
       /\ c.doc.t = "object"
       /\ \/ "insights" \notin c.doc.keys
          \/ (c.doc.insightsT \in {"array", "string", "object"} /\ c.doc.insights = <<>>)

C6_OneModelCall ==
    /\ Len(modelCalls) <= 1
    /\ (openai_client /\ xpc \notin {"idle", "call"}) => Len(modelCalls) = 1
    /\ ~openai_client => modelCalls = <<>>

\* C6 witness: two hits, the call failed, the fallback ran, one call was issued.
C6_Witness ==
    /\ ExtractReturned
    /\ Len(snippet_data) = 2
    /\ exc = "APIError"
    /\ Len(modelCalls) = 1
    /\ Len(modelCalls[1].snippets) = 2

\* C7: on the normal path with N >= 1 hits, the record of insight k (0-based) has
\* the source, url and timestamp of hit k mod N, for any number of insights.
C7_ProvenanceModulo ==
    (ExtractReturned /\ openai_client /\ ~TookFallback /\ Len(snippet_data) >= 1) =>
        /\ Len(ReturnValue) = Len(content.doc.insights)
        /\ \A k \in 0..(Len(ReturnValue) - 1) :
              LET hit == snippet_data[(k % Len(snippet_data)) + 1] IN
              /\ ReturnValue[k + 1].id.i = k
              /\ ReturnValue[k + 1].source = hit.source
              /\ ReturnValue[k + 1].url = hit.url
              /\ ReturnValue[k + 1].timestamp = hit.date

\* C7 witness: two different hits and three insights, so that the index wraps.
C7_Witness ==
    /\ ExtractReturned
    /\ ~TookFallback
    /\ Len(snippet_data) = 2
    /\ snippet_data[1] # snippet_data[2]
    /\ Len(ReturnValue) = 3
    /\ ReturnValue[3].url = snippet_data[1].url


\* ------------------------------------------------------------------ properties: retrieval and filter

SearchReturned == spc = "returned"

\* s ends with suf
EndsWith(s, suf) ==
    /\ Len(s) >= Len(suf)
    /\ SubSeq(s, Len(s) - Len(suf) + 1, Len(s)) = suf

RECURSIVE RelevantHits(_, _, _)
\* the search results of the items the filter accepts, in the provider's order
RelevantHits(items, query, scope) ==
    IF items = <<>> THEN <<>>
    ELSE IF FilterVerdicts[Head(items)][scope]
         THEN <<SearchResult(Head(items), query)>> \o RelevantHits(Tail(items), query, scope)
         ELSE RelevantHits(Tail(items), query, scope)

\* the search call of query number i failed
CallFailed(i) == provided[i].response.kind # "ok"

\* query number i succeeded: its call answered and each accepted item was normalised
QuerySucceeded(i) ==
    /\ provided[i].response.kind = "ok"
    /\ \A j \in 1..Len(provided[i].response.items) :
          LET item == provided[i].response.items[j] IN
          FilterVerdicts[item][geographic_scope] => ~_extract_date_from_result(item).raised

\* the part of the returned sequence that came from query number i
ResultsOfQuery(i) == SelectSeq(all_results, LAMBDA r : r.query = queries[i])

QueryIndex(q) == CHOOSE i \in 1..Len(queries) : queries[i] = q

\* C8: a failing search call never aborts the batch: a call is issued for every
\* query, in order; a failed call contributes nothing; every query that succeeded
\* contributes all its relevant hits; the returned hits are in query order.
C8_FailureDoesNotAbort ==
    (SearchReturned /\ google_service) =>
        /\ Len(provided) = Len(queries)
        /\ \A i \in 1..Len(queries) :
              /\ provided[i].params.q = queries[i]
              /\ CallFailed(i) => ResultsOfQuery(i) = <<>>
              /\ QuerySucceeded(i) =>
                    ResultsOfQuery(i) =
                        RelevantHits(provided[i].response.items, queries[i], geographic_scope)
        /\ \A a, b \in 1..Len(all_results) :
              a < b => QueryIndex(all_results[a].query) <= QueryIndex(all_results[b].query)

\* C8 witness: the first call failed, the second was still issued and its hits are
\* returned.
C8_Witness ==
    /\ SearchReturned
    /\ Len(queries) >= 2
    /\ Len(provided) = Len(queries)
    /\ provided[1].response.kind = "HttpError"
    /\ provided[2].response.kind = "ok"
    /\ all_results # <<>>
    /\ all_results[1].query = queries[2]

DotGovUk == <<".","g","o","v",".","u","k">>
DotUs == <<".","u","s">>

\* the scenario of C9: scope UK, one query, two items: a .gov.uk url, then a .us url
\* whose title and snippet hold no UK keyword
C9_Scenario ==
    /\ SearchReturned
    /\ google_service
    /\ "UK" \in geographic_scope
    /\ Len(queries) = 1
    /\ Len(provided) = 1
    /\ provided[1].response.kind = "ok"
    /\ Len(provided[1].response.items) = 2
    /\ EndsWith(Lower(provided[1].response.items[1].link), DotGovUk)
    /\ EndsWith(Lower(provided[1].response.items[2].link), DotUs)
    /\ ~HasUkKeyword(provided[1].response.items[2])

ResultUrls == [k \in 1..Len(all_results) |-> all_results[k].url]

NationalSuffixes ==
    { <<".","g","o","v",".","u","k">>, <<".","a","c",".","u","k">>,
      <<".","c","o",".","u","k">>, <<".","o","r","g",".","u","k">>,
      <<".","n","h","s",".","u","k">> }

\* C10: with the UK in scope the filter accepts every hit whose url ends in a
\* national domain suffix, whatever its title and snippet hold.
C10_NationalDomainAccepted ==
    (/\ fpc \in {"filtered", "dated"}
     /\ "UK" \in fScope
     /\ \E suf \in NationalSuffixes : EndsWith(Lower(fItem.link), suf))
        => fVerdict

\* C10 witness: a .nhs.uk url whose title holds an exclusion token and no UK
\* keyword was accepted.
C10_Witness ==
    /\ fpc = "filtered"
    /\ fScope = {"UK"}
    /\ EndsWith(fItem.link, <<".","n","h","s",".","u","k">>)
    /\ Contains(<<"u","s","a">>, Lower(fItem.title))
    /\ ~HasUkKeyword(fItem)
    /\ fVerdict

\* ------------------------------------------------------------------ properties: the filter's verdicts

ExclusionTokens ==
    { <<"u","s","a">>, <<"u","n","i","t","e","d"," ","s","t","a","t","e","s">>,
      <<"c","o","l","o","r","a","d","o">>, <<"c","a","l","i","f","o","r","n","i","a">>,
      <<".","e","d","u">> }
NationalKeywords ==
    { <<"u","n","i","t","e","d"," ","k","i","n","g","d","o","m">>, <<"u","k">>,
      <<"b","r","i","t","a","i","n">>, <<"e","n","g","l","a","n","d">>,
      <<"w","a","l","e","s">>, <<"s","c","o","t","l","a","n","d">>,
      <<"o","f","w","a","t">>, <<"d","e","f","r","a">> }

\* what a hit holds, read without regard to letter case
TitleAndSnippet(item) == Lower(item.title \o Space \o item.snippet)
HoldsExclusionToken(item) ==
    \E tok \in ExclusionTokens :
        Contains(tok, Lower(item.link)) \/ Contains(tok, TitleAndSnippet(item))
HoldsNationalSuffix(item) ==
    \E suf \in NationalSuffixes : Contains(suf, Lower(item.link))
HoldsNationalKeyword(item) ==
    \E kw \in NationalKeywords : Contains(kw, TitleAndSnippet(item))

FilterApplied == fpc \in {"filtered", "dated"}

\* C11: with the UK in scope the filter rejects every hit that holds an exclusion
\* token, in its url or in its title and snippet, and has neither a national domain
\* suffix in its url nor a national keyword in its title and snippet.
C11_ExclusionRejected ==
    (/\ FilterApplied
     /\ "UK" \in fScope
     /\ HoldsExclusionToken(fItem)
     /\ ~HoldsNationalSuffix(fItem)
     /\ ~HoldsNationalKeyword(fItem))
        => ~fVerdict

\* C11 witness: a hit whose only exclusion token is in its url (.edu), with no
\* national signal, was rejected.
C11_Witness ==
    /\ FilterApplied
    /\ "UK" \in fScope
    /\ Contains(<<".","e","d","u">>, Lower(fItem.link))
    /\ ~(\E tok \in ExclusionTokens : Contains(tok, TitleAndSnippet(fItem)))
    /\ ~HoldsNationalSuffix(fItem)
    /\ ~HoldsNationalKeyword(fItem)
    /\ ~fVerdict

\* C12: with the UK in scope the filter accepts every hit that has no positive
\* signal (no national suffix, no national keyword) and no exclusion token.
C12_NoSignalAccepted ==
    (/\ FilterApplied
     /\ "UK" \in fScope
     /\ ~HoldsNationalSuffix(fItem)
     /\ ~HoldsNationalKeyword(fItem)
     /\ ~HoldsExclusionToken(fItem))
        => fVerdict

\* C12 witness: a .us url with a neutral title and snippet was accepted in a UK scan.
C12_Witness ==
    /\ FilterApplied
    /\ fScope = {"UK"}
    /\ fItem.link = <<"b",".","u","s">>
    /\ ~HoldsNationalSuffix(fItem)
    /\ ~HoldsNationalKeyword(fItem)
    /\ ~HoldsExclusionToken(fItem)
    /\ fVerdict

RECURSIVE HitsUntilDateFailure(_, _)
\* every item of one answer normalised in the provider's order, up to the item (if
\* any) whose date extraction raises and so ends the query
HitsUntilDateFailure(items, query) ==
    IF items = <<>> THEN <<>>
    ELSE IF _extract_date_from_result(Head(items)).raised THEN <<>>
    ELSE <<SearchResult(Head(items), query)>> \o HitsUntilDateFailure(Tail(items), query)

\* C13: when the scope does not include the UK the filter accepts every hit,
\* exclusion tokens or not, and a retrieval loses no hit to the filter: each
\* answered query contributes every item it was given, in order, as far as the
\* items were processed.
C13_NoFilterOutsideUk ==
    /\ (FilterApplied /\ "UK" \notin fScope) => fVerdict
    /\ (SearchReturned /\ google_service /\ "UK" \notin geographic_scope) =>
          \A i \in 1..Len(provided) :
              provided[i].response.kind = "ok" =>
                  ResultsOfQuery(i) =
                      HitsUntilDateFailure(provided[i].response.items, queries[i])

\* C13 witness: in a scan without the UK in scope a hit with an exclusion token
\* and no national signal was accepted.
C13_Witness ==
    /\ FilterApplied
    /\ "UK" \notin fScope
    /\ HoldsExclusionToken(fItem)
    /\ ~HoldsNationalSuffix(fItem)
    /\ ~HoldsNationalKeyword(fItem)
    /\ fVerdict

\* ------------------------------------------------------------------ properties: the inter-call delay

\* the blocking delay ran at the end of the iteration of query number i
DelayElapsedAfter(i) == i <= Len(sleeps) /\ sleeps[i]

\* C14: the search calls are issued one after another (a call is issued only
\* once the iteration of the one before is over), and between any two
\* consecutive calls the fixed delay has elapsed, whether the earlier call
\* succeeded, answered without items, or failed.
C14_DelayBetweenCalls ==
    /\ Len(provided) \in {Len(sleeps), Len(sleeps) + 1}
    /\ \A i \in 1..Len(provided) : i < Len(provided) => DelayElapsedAfter(i)

\* ------------------------------------------------------------------ properties: scans and the alert store

\* the entry a scan flow stores under
EntryOf(p) == session_state[AlertKey(scans[p].target)]

\* a key holds alert records
Populated(k) == session_state[k].present /\ session_state[k].value # <<>>

\* C15: when the model credential is missing a scan issues no search call at
\* all, and once it has ended it has reported the missing configuration.
C15_NoSearchWithoutModelKey ==
    \A p \in Flows :
        (~openai_key /\ scans[p].pc # "idle") =>
            /\ scans[p].calls = 0
            /\ scans[p].pc = "done" =>
                  \E i \in 1..Len(scans[p].log) :
                      scans[p].log[i] \in {"OpenAI API not configured",
                                           "Google Search API not configured"}

\* C16: once a scan has stored its N records under its category, reading the
\* category returns exactly those records in their order, whatever the category
\* held before: nothing of an earlier sequence is kept, nothing is appended.
C16_RoundTrip ==
    \A p \in Flows :
        (scans[p].pc = "done" /\ scans[p].stored) =>
            ReadAlerts(AlertKey(scans[p].target)) = scans[p].analyzed_results

\* C16 witness: a scan stored two records over an entry that held a different,
\* non-empty sequence.
C16_Witness ==
    /\ scans["a"].pc = "done"
    /\ scans["a"].stored
    /\ Len(scans["a"].analyzed_results) = 2
    /\ scans["a"].replaced.present
    /\ scans["a"].replaced.value # <<>>
    /\ scans["a"].replaced.value # scans["a"].analyzed_results
    /\ EntryOf("a").value = scans["a"].analyzed_results

\* C17: a category that holds alert records holds alert records after every
\* step of every scan: there is no way back from Populated to Empty.
C17_NeverBackToEmpty ==
    [][\A k \in AlertKeys : Populated(k) => Populated(k)']_vars

\* two targets scan one category: the same target, or two entry points that scan
\* the same market category
SameCategory(t, u) ==
    \/ t = u
    \/ (t.entry \in CategoryEntries /\ u.entry \in CategoryEntries
           /\ t.category = u.category)

\* C18: when two scans are interleaved every entry holds the complete sequence
\* of the scan that stored under it last, or was never set.  So two scans of
\* different categories each leave their own sequence in their own entry, a scan
\* that stored nothing leaves the other's entry alone, and two scans of one
\* category leave the sequence of the last writer, never a mixture.
C18_LastWriterWins ==
    /\ \A k \in AlertKeys :
          IF last_writer[k] = "none" THEN session_state[k] = AbsentEntry
          ELSE session_state[k] =
                   Entry(TRUE, scans[last_writer[k]].analyzed_results)
    /\ \A p, q \in Flows :
          (/\ p # q
           /\ scans[p].stored
           /\ ~SameCategory(scans[q].target, scans[p].target))
              => EntryOf(p) = Entry(TRUE, scans[p].analyzed_results)

\* C18 witness: both flows scanned the same category and stored different
\* sequences; the entry holds the sequence of the one that stored last.
C18_Witness ==
    /\ scans["a"].stored /\ scans["b"].stored
    /\ scans["a"].target = scans["b"].target
    /\ scans["a"].analyzed_results # scans["b"].analyzed_results
    /\ scans["a"].analyzed_results # <<>>
    /\ scans["b"].analyzed_results # <<>>
    /\ last_writer[AlertKey(scans["a"].target)] = "a"
    /\ scans["a"].replaced = Entry(TRUE, scans["b"].analyzed_results)
    /\ EntryOf("a") = Entry(TRUE, scans["a"].analyzed_results)

\* ------------------------------------------------------------------ properties: the query builder

\* the builder has returned and no contextual trigger was pending at the call
BuiltWithoutTrigger == bpc = "returned" /\ ~trigger.set

\* the configuration holds no component at all
NothingConfigured ==
    /\ \A k \in ScanConfigKeys : k \notin scan_config.keys \/ scan_config[k] = <<>>
    /\ refinement_keywords = <<>>

\* C19: with no contextual trigger pending the builder returns one to three
\* queries, none of them empty, for every configuration and refinement; the
\* first (primary) query is made of at most 6 components.
C19_OneToThreeQueries ==
    BuiltWithoutTrigger =>
        /\ Len(built_queries) \in 1..3
        /\ \A i \in 1..Len(built_queries) : built_queries[i] # <<>>
        /\ \E n \in 1..6 :
              /\ n <= Len(base_components)
              /\ built_queries[1] = Join(SubSeq(base_components, 1, n))

\* C19 witness: a configuration with more than 6 components gave three queries.
C19_Witness ==
    /\ BuiltWithoutTrigger
    /\ Len(base_components) > 6
    /\ Len(built_queries) = 3
    /\ built_queries[1] = Join(SubSeq(base_components, 1, 6))

\* C20: with nothing configured, no refinement and no trigger the builder
\* returns exactly one query, which names the default geography (UK) and the
\* default domain terms.
C20_DefaultQueryNamesUk ==
    (BuiltWithoutTrigger /\ NothingConfigured) =>
        /\ Len(built_queries) = 1
        /\ Contains(<<"U","K">>, built_queries[1])
        /\ Contains(<<"b","u","i","l","t"," ","a","s","s","e","t","s">>, built_queries[1])
        /\ Contains(<<"c","o","n","s","t","r","u","c","t","i","o","n">>, built_queries[1])

\* ------------------------------------------------------------------ properties: the contextual trigger

\* call number i of the builder was followed by another call
HasNextBuild(i) == i < Len(build_log)

\* the trigger left in the session by call number i
TriggerLeftBy(i) ==
    IF HasNextBuild(i) THEN build_log[i + 1].pending ELSE contextual_trigger_data

\* call number i answered with the one query of the trigger it found: the
\* trigger's name and category, and it left no trigger behind
AnsweredFromTrigger(i) ==
    LET b == build_log[i] IN
    /\ Len(b.queries) = 1
    /\ Contains(b.pending.name, b.queries[1])
    /\ Contains(b.pending.category, b.queries[1])
    /\ ~TriggerLeftBy(i).set

\* call number i built its queries from the configuration's components
AnsweredFromConfig(i) ==
    LET b == build_log[i] IN
    /\ b.components # <<>>
    /\ b.queries # <<>>
    /\ \E n \in 1..Len(b.components) :
          b.queries[1] = Join(SubSeq(b.components, 1, n))

CarriesDate(item) ==
    \E k \in item.pagemap.keys :
        \E j \in 1..Len(item.pagemap.lists[k]) :
            \E f \in DateFields : DictGet(item.pagemap.lists[k][j], f) # ""

\* C22: date extraction returns a value for every raw hit, whatever metadata it
\* carries, and returns "Recent" when the hit carries no date field; in a
\* retrieval every answered query therefore contributes all the hits the filter
\* accepts, none is lost to a hit without a date.
C22_DateNeverFails ==
    /\ fpc = "dated" =>
          /\ ~fDate.raised
          /\ ~CarriesDate(fItem) => fDate.val = "Recent"
    /\ (SearchReturned /\ google_service) =>
          \A i \in 1..Len(provided) :
              provided[i].response.kind = "ok" =>
                  ResultsOfQuery(i) =
                      RelevantHits(provided[i].response.items, queries[i],
                                   geographic_scope)

\* ------------------------------------------------------------------ properties: execute_market_scan

\* execute_market_scan is over
MarketScanOver == mpc \in {"returned", "raised"}

\* C23: with the credentials configured, whatever the configuration and whatever
\* the external calls answer, execute_market_scan completes and returns a
\* sequence: no exception of the steps below it comes out of it.
C23_ScanNeverRaises ==
    (api_keys /\ MarketScanOver) =>
        /\ mpc = "returned"
        /\ ~scan_outcome.raised

\* the positions of all_urls that hold the first occurrence of their url
FirstPositions ==
    {i \in 1..Len(all_urls) : \A j \in 1..(i - 1) : all_urls[j].url # all_urls[i].url}

\* how many first occurrences stand at or before position i
RankOfFirst(i) == Cardinality({j \in FirstPositions : j <= i})

\* crawl_urls has just been handed its list and has visited none of it
JustHanded == mpc = "crawl" /\ processed_urls = {} /\ fetched = <<>>

\* C28: the list handed to the crawl step has no two entries with the same url,
\* holds the first occurrence of each url in the order of all_urls, and has at
\* most num_results entries; the crawl step fetches no url twice and fetches
\* only urls of that list.
C28_CrawlListDistinct ==
    /\ JustHanded =>
          /\ \A i, j \in 1..Len(crawl_list) :
                i # j => crawl_list[i].url # crawl_list[j].url
          /\ Len(crawl_list) = Min(Cardinality(FirstPositions), num_results)
          /\ Len(crawl_list) <= num_results
          /\ \A i \in FirstPositions :
                RankOfFirst(i) <= num_results =>
                    crawl_list[RankOfFirst(i)] = all_urls[i]
    /\ \A i, j \in 1..Len(fetched) : i # j => fetched[i] # fetched[j]
    /\ Len(fetched) <= num_results
    /\ \A i \in 1..Len(fetched) :
          \E k \in FirstPositions : all_urls[k].url = fetched[i]

\* a scan is over whose direct urls named one url twice and which fetched two
\* different urls
C28_Witness ==
    /\ mpc = "returned"
    /\ Len(all_urls) > Cardinality(FirstPositions)
    /\ Len(fetched) = 2
    /\ FirstPositions # {1, 2}

\* ------------------------------------------------------------------ properties: alert ids

\* the records the Alert Store holds under a key
Held(key) == IF session_state[key].present THEN session_state[key].value ELSE <<>>

\* C24: no two records held in the Alert Store carry the same id, whether they
\* stand under one key or under two, after any sequence or interleaving of scans.
C24_AlertIdsUnique ==
    \A k1, k2 \in AlertKeys :
        \A i \in 1..Len(Held(k1)), j \in 1..Len(Held(k2)) :
            (k1 # k2 \/ i # j) => Held(k1)[i].id # Held(k2)[j].id

\* the same, within each key only
IdsUniqueWithinKey ==
    \A k \in AlertKeys :
        \A i, j \in 1..Len(Held(k)) : i # j => Held(k)[i].id # Held(k)[j].id

\* ------------------------------------------------------------------ properties: only accepted hits are returned

\* the filter's verdict for a scope, said on its own: outside a UK scope every item
\* passes; inside one an item passes on a national domain, on a national keyword,
\* or when it holds no exclusion token
FilterAccepts(item, scope) ==
    "UK" \in scope =>
        (HasUkDomain(item) \/ HasUkKeyword(item) \/ ~HasNonUkIndicator(item))

\* that verdict for every item the provider can return and every scope
Acceptable ==
    [item \in RawItems |-> [scope \in SearchScopes |-> FilterAccepts(item, scope)]]

\* the hit was made from the raw item
CameFrom(hit, item) ==
    /\ hit.url = item.link
    /\ hit.title = item.title
    /\ hit.snippet = item.snippet
    /\ hit.source = item.displayLink

\* C25: every hit execute_google_search has collected was made from an item the
\* provider returned for the query the hit carries, that item passes the filter
\* for the configured scope, and the hits of one query stand in the order the
\* provider gave their items.
C25_OnlyAcceptedHits ==
    /\ \A k \in 1..Len(all_results) :
          \E i \in 1..Len(provided) :
              /\ all_results[k].query = queries[i]
              /\ provided[i].params.q = queries[i]
              /\ provided[i].response.kind = "ok"
              /\ \E j \in 1..Len(provided[i].response.items) :
                    /\ CameFrom(all_results[k], provided[i].response.items[j])
                    /\ Acceptable[provided[i].response.items[j]][geographic_scope]
    /\ \A i \in 1..Len(provided) :
          \A a, b \in 1..Len(ResultsOfQuery(i)) :
              a < b =>
                  \E j, l \in 1..Len(provided[i].response.items) :
                      /\ j < l
                      /\ CameFrom(ResultsOfQuery(i)[a], provided[i].response.items[j])
                      /\ CameFrom(ResultsOfQuery(i)[b], provided[i].response.items[l])

\* a UK retrieval has returned: one query was given two items and kept both, in
\* order; another was given an item the filter rejects and returned fewer hits
\* than items
C25_Witness ==
    /\ SearchReturned
    /\ "UK" \in geographic_scope
    /\ \E i \in 1..Len(provided) :
          /\ Len(provided[i].response.items) = 2
          /\ Len(ResultsOfQuery(i)) = 2
    /\ \E i \in 1..Len(provided) :
          /\ \E j \in 1..Len(provided[i].response.items) :
                ~Acceptable[provided[i].response.items[j]][geographic_scope]
          /\ Len(ResultsOfQuery(i)) < Len(provided[i].response.items)

\* ------------------------------------------------------------------ properties: a scan without hits

\* the scan of the flow is over and its searches retrieved no hit
EndedWithoutHits(p) ==
    /\ scans[p].pc = "done"
    /\ scans[p].qi > Len(scans[p].queries)
    /\ scans[p].search_results = <<>>

\* C26: a scan of one category that retrieved no hit ends with the empty-result
\* warning as its last message, has asked the language model nothing, and the
\* sequence stored for its category is the one held before the scan began.
C26_NoHitsWarned ==
    EndedWithoutHits("a") =>
        /\ scans["a"].log # <<>>
        /\ scans["a"].log[Len(scans["a"].log)] = "No search results found"
        /\ scans["a"].model_calls = 0
        /\ ~scans["a"].stored
        /\ session_state[AlertKey(scans["a"].target)] = scans["a"].before

\* the same without the warning: no model call, nothing stored
NoHitsLeaveStore ==
    EndedWithoutHits("a") =>
        /\ scans["a"].model_calls = 0
        /\ ~scans["a"].stored
        /\ session_state[AlertKey(scans["a"].target)] = scans["a"].before

\* ------------------------------------------------------------------ properties: the number of queries

\* C27: whichever builder a scan entry point calls, for every category of its
\* form and every configuration (a configuration without suppliers too), it
\* returns at least one query and at most three.
C27_OneToThreeQueries ==
    build_entry # "none" => (Len(build_result) >= 1 /\ Len(build_result) <= 3)

\* the two builders of the category scans return at most three queries
CategoryBuildersAtMostThree ==
    build_entry \in {"build_market_category_queries",
                     "build_supplier_intelligence_queries"}
        => Len(build_result) <= 3

\* ------------------------------------------------------------------ properties: archiving a timeline entry

\* C30: once an entry of the displayed timeline has been archived, the archive of
\* the category holds it, the timeline the view reads holds no entry with its id,
\* and the other entries of that timeline are the ones displayed before, in order.
C30_ArchivedLeavesTimeline ==
    tpc = "archived" =>
        /\ \E i \in 1..Len(archived_timeline.value) :
              archived_timeline.value[i] = archived_entry
        /\ \A i \in 1..Len(timeline_data.value) :
              timeline_data.value[i].id # archived_entry.id
        /\ timeline_data.value = WithoutId(displayed, archived_entry.id)

\* the archive at least receives the entry
ArchiveHoldsEntry ==
    tpc = "archived" =>
        /\ archived_timeline.present
        /\ archived_timeline.value[Len(archived_timeline.value)] = archived_entry


\* ------------------------------------------------------------------ C29

\* the links found on the pages crawled so far
RECURSIVE LinksFound(_)
LinksFound(vs) ==
    IF vs = <<>> THEN 0 ELSE Len(Head(vs).links) + LinksFound(Tail(vs))

\* the crawl has a next step to take
CrawlCanStep ==
    ENABLED (CrawlStep
               /\ UNCHANGED <<extractVars, searchVars, filterVars, scanVars, queryVars,
                              marketVars, builderVars, timelineVars, uiLog>>)

\* C29: crawl_with_depth terminates for every finite link graph and every
\* max_depth >= 0: the loop always has a next step until it returns, and the
\* turns taken plus the entries still queued never exceed the starting urls
\* plus the links found on the pages crawled, of which there are as many as
\* distinct urls at most. Each distinct url is processed at most once, no url
\* is recorded at a depth above max_depth, a url whose fetch failed is recorded
\* with an error value, and the crawl goes on after a failure: when it returns,
\* every starting url is recorded.
C29_CrawlTerminatesOncePerUrl ==
    /\ cpc = "loop" => CrawlCanStep
    /\ iterations + Len(urls_to_process) <= Len(starting_urls) + LinksFound(visits)
    /\ Len(visits) <= Cardinality(Pages)
    /\ \A i, j \in 1..Len(visits) : visits[i].url = visits[j].url => i = j
    /\ \A i \in 1..Len(visits) :
          /\ visits[i].depth <= max_depth
          /\ page_content[visits[i].url] = (IF visits[i].failed THEN "error" ELSE "text")
    /\ \A p \in Pages :
          page_content[p] # "absent" <=> \E i \in 1..Len(visits) : visits[i].url = p
    /\ cpc = "returned" =>
          \A k \in 1..Len(starting_urls) : page_content[starting_urls[k]] # "absent"

\* a crawl returned: the first fetch failed, a later page was crawled all the
\* same and links back to the failed one, which is not queued again, and a url
\* queued twice was skipped the second time
C29_Witness ==
    /\ cpc = "returned"
    /\ max_depth > 0
    /\ Len(visits) >= 2
    /\ visits[1].failed
    /\ \E i \in 2..Len(visits) :
          /\ ~visits[i].failed
          /\ \E k \in 1..Len(visits[i].links) : visits[i].links[k] = visits[1].url
    /\ iterations > Len(visits)

====
